---------------------------- MODULE Spec2Model ----------------------------
(***************************************************************************)
(* Model of the security-hardened Express servers of this repository:      *)
(*   - the secure server (server.js, helmet -> cors -> rateLimit -> json   *)
(*     -> urlencoded -> routes -> 404 handler -> error handler),           *)
(*   - the toggle-able server (SECURITY_ENABLED master switch),            *)
(*   - their environment-driven configuration modules.                     *)
(* Strings that the code splits and trims are sequences of tokens: a token *)
(* is "," or " " or an atomic piece of text such as an origin.             *)
(* Third-party middleware is modelled at its call site by what the pinned  *)
(* versions do: helmet 8.1.0, cors 2.8.5, express-rate-limit 8.2.1 with    *)
(* its default MemoryStore, express 5.2.1.                                 *)
(***************************************************************************)
EXTENDS Integers, Sequences, FiniteSets, Bags, TLC

VARIABLES
  deployment,   \* the process environment the configuration was resolved from
  clock,        \* Date.now(), in ticks
  store,        \* MemoryStore of the rate limiter: key -> [totalHits, resetTime]
  reqs,         \* requests in flight: a bag of request/response records
  arrivals,     \* number of requests received so far
  ref,          \* per identity: the window counter of the specified algorithm
  form,         \* a request on a validated route: body, errors, response
  proc,         \* the server process: listeners, connections, shutdown, exit
  calc          \* a helper function under evaluation: its input, steps and result

pipeVars == <<deployment, clock, store, reqs, arrivals, ref>>

vars == <<deployment, clock, store, reqs, arrivals, ref, form, proc, calc>>

-----------------------------------------------------------------------------
(* Bounds of the model *)

MaxRequests == 4
MaxInFlight == 2
MaxClock == 1
MaxSerial == 3
\* the values the deployments give RATE_LIMIT_WINDOW_MS (in ticks) and
\* RATE_LIMIT_MAX_REQUESTS
WindowTicks == 1
RateLimitMax == 2

-----------------------------------------------------------------------------
(* Text helpers: String.prototype.trim / split / filter over token sequences *)

RECURSIVE TrimLeft(_)
TrimLeft(s) == IF s # <<>> /\ Head(s) = " " THEN TrimLeft(Tail(s)) ELSE s

RECURSIVE TrimRight(_)
TrimRight(s) ==
  IF s # <<>> /\ s[Len(s)] = " " THEN TrimRight(SubSeq(s, 1, Len(s) - 1)) ELSE s

Trim(s) == TrimRight(TrimLeft(s))

RECURSIVE SplitComma(_)
SplitComma(s) ==
  IF \E i \in 1..Len(s) : s[i] = ","
  THEN LET i == CHOOSE k \in 1..Len(s) :
                  s[k] = "," /\ \A j \in 1..(k - 1) : s[j] # ","
       IN <<SubSeq(s, 1, i - 1)>> \o SplitComma(SubSeq(s, i + 1, Len(s)))
  ELSE <<s>>

MapTrim(list) == [i \in 1..Len(list) |-> Trim(list[i])]

FilterNonEmpty(list) == SelectSeq(list, LAMBDA e : Len(e) > 0)

RECURSIVE Join(_)
Join(s) == IF s = <<>> THEN "" ELSE Head(s) \o Join(Tail(s))

JoinEach(list) == [i \in 1..Len(list) |-> Join(list[i])]

\* process.env.X: unset, or set to a text
Unset == [set |-> FALSE, val |-> <<>>]
EnvText(s) == [set |-> TRUE, val |-> s]

\* !originsEnv || originsEnv.trim() === ''
IsBlank(e) == ~e.set \/ e.val = <<>> \/ Trim(e.val) = <<>>

-----------------------------------------------------------------------------
(* Configuration: src/config/security.js of the secure server *)

NODE_ENV == IF deployment.NODE_ENV.set /\ deployment.NODE_ENV.val # <<>>
            THEN Join(deployment.NODE_ENV.val) ELSE "development"

isDevelopment == NODE_ENV = "development"

isProduction == NODE_ENV = "production"

DenyAll == [deny |-> TRUE, list |-> <<>>]
OriginList(l) == [deny |-> FALSE, list |-> l]

\* variant: empty entries are kept
parseAllowedOrigins_keepEmpty ==
  LET originsEnv == deployment.ALLOWED_ORIGINS IN
  IF IsBlank(originsEnv)
  THEN IF isDevelopment
       THEN OriginList(<<"http://localhost:3000", "https://localhost:3443">>)
       ELSE DenyAll
  ELSE OriginList(JoinEach(MapTrim(SplitComma(originsEnv.val))))

parseAllowedOrigins ==
  LET originsEnv == deployment.ALLOWED_ORIGINS IN
  IF IsBlank(originsEnv)
  THEN IF isDevelopment
       THEN OriginList(<<"http://localhost:3000", "https://localhost:3443">>)
       ELSE DenyAll
  ELSE OriginList(JoinEach(FilterNonEmpty(MapTrim(SplitComma(originsEnv.val)))))

secureCorsConfig ==
  [origin |-> parseAllowedOrigins,
   methods |-> "GET,POST,PUT,DELETE,OPTIONS",
   allowedHeaders |-> "Content-Type,Authorization",
   credentials |-> TRUE,
   maxAge |-> "86400"]

(* Configuration: config/security.js, config/cors.js of the toggle-able server *)

\* variant: every falsy-looking value switches security off
isSecurityEnabled_falsy ==
  ~(deployment.SECURITY_ENABLED.set /\
      deployment.SECURITY_ENABLED.val \in {<<"false">>, <<"FALSE">>, <<"0">>})

\* process.env.SECURITY_ENABLED !== 'false'
isSecurityEnabled ==
  ~(deployment.SECURITY_ENABLED.set /\ deployment.SECURITY_ENABLED.val = <<"false">>)

parseOrigins(originsEnv) ==
  IF IsBlank(originsEnv)
  THEN DenyAll
  ELSE OriginList(JoinEach(FilterNonEmpty(MapTrim(SplitComma(originsEnv.val)))))

toggleCorsConfig ==
  [origin |-> parseOrigins(deployment.CORS_ORIGINS),
   methods |-> "GET,POST",
   allowedHeaders |-> "Content-Type,Authorization",
   credentials |-> FALSE,
   maxAge |-> "86400"]

corsConfig == IF deployment.server = "secure" THEN secureCorsConfig ELSE toggleCorsConfig


(* Numeric environment variables: parseInt(process.env.X, 10) || default *)

\* the decimal digits of a natural number, one character each
RECURSIVE NumChars(_)
NumChars(n) ==
  IF n < 10 THEN <<ToString(n)>> ELSE NumChars(n \div 10) \o <<ToString(n % 10)>>

\* process.env.X set to the digits of n
EnvNum(n) == EnvText(NumChars(n))

Digits == {"0", "1", "2", "3", "4", "5", "6", "7", "8", "9"}

IsDigitChar(c) == c \in Digits

DigitValue(c) ==
  CASE c = "0" -> 0 [] c = "1" -> 1 [] c = "2" -> 2 [] c = "3" -> 3 [] c = "4" -> 4
    [] c = "5" -> 5 [] c = "6" -> 6 [] c = "7" -> 7 [] c = "8" -> 8 [] c = "9" -> 9

\* the value of the longest run of digits at the start of s, as [len, num]
RECURSIVE LeadingDigits(_, _)
LeadingDigits(s, acc) ==
  IF s # <<>> /\ IsDigitChar(Head(s))
  THEN LeadingDigits(Tail(s), [len |-> acc.len + 1, num |-> acc.num * 10 + DigitValue(Head(s))])
  ELSE acc

\* parseInt(e, 10): leading white space is skipped, then an optional sign,
\* then digits up to the first other character; NaN when there is no digit
\* (undefined is converted to the text 'undefined')
parseInt10(e) ==
  LET s == IF e.set THEN TrimLeft(e.val) ELSE <<>>
      signed == s # <<>> /\ Head(s) \in {"-", "+"}
      r == LeadingDigits(IF signed THEN Tail(s) ELSE s, [len |-> 0, num |-> 0])
  IN [nan |-> r.len = 0,
      num |-> IF signed /\ Head(s) = "-" THEN 0 - r.num ELSE r.num]

\* p || d: NaN and 0 are falsy

OrDefault(p, d) == IF p.nan \/ p.num = 0 THEN d ELSE p.num

\* variant: failed requests are not counted (skipFailedRequests on)
secureRateLimitConfig_skipFailed ==
  [windowMs |-> OrDefault(parseInt10(deployment.RATE_LIMIT_WINDOW_MS), 900000),
   limit |-> OrDefault(parseInt10(deployment.RATE_LIMIT_MAX_REQUESTS), 100),
   statusCode |-> 429,
   message |-> "{\"error\":\"Too many requests, please try again later.\"}",
   skipSuccessfulRequests |-> FALSE,
   skipFailedRequests |-> TRUE]

secureRateLimitConfig ==
  [windowMs |-> OrDefault(parseInt10(deployment.RATE_LIMIT_WINDOW_MS), 900000),
   limit |-> OrDefault(parseInt10(deployment.RATE_LIMIT_MAX_REQUESTS), 100),
   statusCode |-> 429,
   message |-> "{\"error\":\"Too many requests, please try again later.\"}",
   skipSuccessfulRequests |-> FALSE,
   skipFailedRequests |-> FALSE]

toggleRateLimitConfig ==
  [windowMs |-> OrDefault(parseInt10(deployment.RATE_WINDOW_MS), 900000),
   limit |-> OrDefault(parseInt10(deployment.RATE_LIMIT), 100),
   statusCode |-> 429,
   message |-> "{\"error\":\"Too many requests\",\"message\":\"You have exceeded the rate limit. Please try again later.\"}",
   skipSuccessfulRequests |-> FALSE,
   skipFailedRequests |-> FALSE]

rateLimitConfig ==
  IF deployment.server = "secure" THEN secureRateLimitConfig ELSE toggleRateLimitConfig

-----------------------------------------------------------------------------
(* Response headers: a function from lower-case header name to value *)

SetHeader(h, k, v) == (k :> v) @@ h

RemoveHeader(h, k) == [x \in (DOMAIN h) \ {k} |-> h[x]]

HasHeader(h, k) == k \in DOMAIN h

(* helmet(helmetConfig) of the secure server: CSP directives, HSTS with
   includeSubDomains and preload, referrer policy from the configuration;
   the rest are helmet's defaults.  helmet() of the toggle-able server uses
   the defaults throughout. *)
helmetHeaders ==
  LET secure == deployment.server = "secure" IN
  ("content-security-policy" :>
     (IF secure
      THEN "default-src 'self';script-src 'self';style-src 'self' 'unsafe-inline';img-src 'self' data:;upgrade-insecure-requests"
      ELSE "default-src 'self';upgrade-insecure-requests")) @@
  ("cross-origin-opener-policy" :> "same-origin") @@
  ("cross-origin-resource-policy" :> "same-origin") @@
  ("origin-agent-cluster" :> "?1") @@
  ("referrer-policy" :>
     (IF secure THEN "strict-origin-when-cross-origin" ELSE "no-referrer")) @@
  ("strict-transport-security" :>
     (IF secure THEN "max-age=31536000; includeSubDomains; preload"
      ELSE "max-age=31536000; includeSubDomains")) @@
  ("x-content-type-options" :> "nosniff") @@
  ("x-dns-prefetch-control" :> "off") @@
  ("x-download-options" :> "noopen") @@
  ("x-frame-options" :> "SAMEORIGIN") @@
  ("x-permitted-cross-domain-policies" :> "none") @@
  ("x-xss-protection" :> "0")

\* variant: X-Powered-By is left on the response
HelmetApply_keepPoweredBy(h) == helmetHeaders @@ h

\* the helmet middleware: set every header, remove X-Powered-By
HelmetApply(h) == helmetHeaders @@ RemoveHeader(h, "x-powered-by")

-----------------------------------------------------------------------------
(* cors(corsConfig): cors 2.8.5 *)

NoOrigin == [present |-> FALSE, val |-> ""]
OriginHeader(o) == [present |-> TRUE, val |-> o]

\* variant: any origin is reflected once the list is not empty
isOriginAllowed_any(requestOrigin, list) ==
  requestOrigin.present /\ list # <<>>

\* isOriginAllowed(origin, allowedOrigin) for an array of strings
isOriginAllowed(requestOrigin, list) ==
  requestOrigin.present /\ \E i \in 1..Len(list) : list[i] = requestOrigin.val

\* variant: deny-all handled as an empty allow-list
CorsRuns_always(cfg) == TRUE

\* corsMiddleware: with a falsy origin option the middleware calls next()
\* at once without touching the response
CorsRuns(cfg) == ~cfg.origin.deny

\* configureOrigin + configureCredentials (+ the preflight headers);
\* applyHeaders skips a header whose value is falsy
CorsHeaders(cfg, r, h) ==
  LET allowed == isOriginAllowed(r.origin, cfg.origin.list)
      h1 == IF allowed /\ r.origin.val # ""
            THEN SetHeader(h, "access-control-allow-origin", r.origin.val) ELSE h
      h2 == SetHeader(h1, "vary", "Origin")
      h3 == IF cfg.credentials
            THEN SetHeader(h2, "access-control-allow-credentials", "true") ELSE h2
  IN IF r.method = "OPTIONS"
     THEN SetHeader(SetHeader(SetHeader(SetHeader(h3,
            "access-control-allow-methods", cfg.methods),
            "access-control-allow-headers", cfg.allowedHeaders),
            "access-control-max-age", cfg.maxAge),
            "content-length", "0")
     ELSE h3

-----------------------------------------------------------------------------
(* rateLimit(rateLimitConfig): express-rate-limit 8.2.1, MemoryStore.
   standardHeaders 'draft-8': RateLimit-Policy "q=<limit>; w=<window>" and
   RateLimit "r=<remaining>; t=<until reset>" (the policy name and the
   partition key are left out), Retry-After on a rejection. *)

Clients == {"A", "B"}

\* MemoryStore.getClient: a new client starts a window at the current time
getClient(st, key, now) ==
  IF key \in DOMAIN st THEN st[key]
  ELSE [totalHits |-> 0, resetTime |-> now + rateLimitConfig.windowMs]

\* variant: the window is reset only strictly after resetTime
increment_strict(st, key, now) ==
  LET client == getClient(st, key, now)
      fresh == IF client.resetTime < now
               THEN [totalHits |-> 0, resetTime |-> now + rateLimitConfig.windowMs]
               ELSE client
  IN (key :> [fresh EXCEPT !.totalHits = @ + 1]) @@ st

\* variant: one record shared by every key
increment_sharedKey(st, key, now) ==
  LET known == IF DOMAIN st = {} THEN key ELSE CHOOSE k \in DOMAIN st : TRUE
      client == getClient(st, known, now)
      fresh == IF client.resetTime <= now
               THEN [totalHits |-> 0, resetTime |-> now + rateLimitConfig.windowMs]
               ELSE client
  IN [k \in (DOMAIN st) \cup {key} |-> [fresh EXCEPT !.totalHits = @ + 1]]

\* MemoryStore.increment: reset an expired window, then count the hit
increment(st, key, now) ==
  LET client == getClient(st, key, now)
      fresh == IF client.resetTime <= now
               THEN [totalHits |-> 0, resetTime |-> now + rateLimitConfig.windowMs]
               ELSE client
  IN (key :> [fresh EXCEPT !.totalHits = @ + 1]) @@ st

\* MemoryStore.decrement
decrement(st, key) ==
  IF key \in DOMAIN st /\ st[key].totalHits > 0
  THEN [st EXCEPT ![key].totalHits = @ - 1] ELSE st

\* variant: the ceiling is tested one hit late
limitExceeded_late(totalHits) == totalHits > rateLimitConfig.limit + 1

\* the middleware's test after the increment: totalHits > limit
limitExceeded(totalHits) == totalHits > rateLimitConfig.limit

Max(a, b) == IF a >= b THEN a ELSE b

\* variant: remaining is not floored at zero
remainingOf_unclamped(totalHits) == rateLimitConfig.limit - totalHits

\* info.remaining = max(limit - totalHits, 0)
remainingOf(totalHits) == Max(rateLimitConfig.limit - totalHits, 0)

-----------------------------------------------------------------------------
(* The deployments: the environments a process of the repository is started in *)

AppOrigin == "https://app.example"
LocalOrigin == "http://localhost:3000"
EvilOrigin == "https://evil.example"

OriginEnvValues ==
  { Unset, EnvText(<<>>), EnvText(<<" ">>), EnvText(<<",">>),
    EnvText(<<AppOrigin>>),
    EnvText(<<" ", AppOrigin, ",", " ", LocalOrigin>>),
    EnvText(<<"*">>) }

BaseDeployment ==
  [server |-> "secure", NODE_ENV |-> Unset, ALLOWED_ORIGINS |-> Unset,
   SECURITY_ENABLED |-> Unset, CORS_ORIGINS |-> Unset, HTTPS_ENABLED |-> Unset,
   RATE_LIMIT_WINDOW_MS |-> EnvNum(WindowTicks),
   RATE_LIMIT_MAX_REQUESTS |-> EnvNum(RateLimitMax),
   RATE_WINDOW_MS |-> EnvNum(WindowTicks),
   RATE_LIMIT |-> EnvNum(RateLimitMax)]

SecureDeployments ==
  { [BaseDeployment EXCEPT !.NODE_ENV = EnvText(<<"production">>),
                           !.ALLOWED_ORIGINS = o] : o \in OriginEnvValues } \cup
  { [BaseDeployment EXCEPT !.ALLOWED_ORIGINS = o] :
      o \in {Unset, EnvText(<<" ">>), EnvText(<<"*">>)} } \cup
  { [BaseDeployment EXCEPT !.NODE_ENV = EnvText(<<"test">>)] }

ToggleDeployments ==
  { [BaseDeployment EXCEPT !.server = "toggle", !.SECURITY_ENABLED = s,
                           !.CORS_ORIGINS = o] :
      s \in {Unset, EnvText(<<"false">>), EnvText(<<"FALSE">>), EnvText(<<"0">>)},
      o \in {Unset, EnvText(<<AppOrigin>>)} }

Deployments == SecureDeployments \cup ToggleDeployments

-----------------------------------------------------------------------------
(* Requests *)

OriginHeaders ==
  { NoOrigin, OriginHeader(AppOrigin), OriginHeader(LocalOrigin),
    OriginHeader(EvilOrigin), OriginHeader("*") }

Req(m, p, o, a, b) == [method |-> m, path |-> p, origin |-> o, acrm |-> a, body |-> b]

\* acrm: the request carries Access-Control-Request-Method
RequestKinds ==
  { Req("GET", "/", o, FALSE, "none") : o \in OriginHeaders } \cup
  { Req("OPTIONS", "/", o, TRUE, "none") : o \in OriginHeaders \ {NoOrigin} } \cup
  { Req("OPTIONS", "/", NoOrigin, FALSE, "none"),
    Req("OPTIONS", "/nope", OriginHeader(AppOrigin), TRUE, "none"),
    Req("GET", "/health", NoOrigin, FALSE, "none"),
    Req("GET", "/evening", NoOrigin, FALSE, "none"),
    Req("GET", "/nope", OriginHeader(AppOrigin), FALSE, "none"),
    Req("POST", "/", NoOrigin, FALSE, "json"),
    Req("POST", "/", NoOrigin, FALSE, "badjson"),
    Req("POST", "/nope", NoOrigin, FALSE, "largeform") }

\* the requests of the concurrent specification
PlainKinds ==
  { Req("GET", "/", NoOrigin, FALSE, "none"),
    Req("POST", "/nope", OriginHeader(AppOrigin), FALSE, "badjson") }

\* variant: the limiter mounted after the body parsers
Stack_limiterAfterParsers ==
  IF deployment.server = "secure"
  THEN <<"helmet", "cors", "json", "urlencoded", "rateLimit", "route">>
  ELSE IF isSecurityEnabled
       THEN <<"helmet", "cors", "rateLimit", "route">>
       ELSE <<"route">>

\* the middleware stack, in app.use order, before the routes
Stack ==
  IF deployment.server = "secure"
  THEN <<"helmet", "cors", "rateLimit", "json", "urlencoded", "route">>
  ELSE IF isSecurityEnabled
       THEN <<"helmet", "cors", "rateLimit", "route">>
       ELSE <<"route">>

\* the JSON object the global error handler sends; "" marks an absent key
NoErrorBody == [error |-> "", message |-> "", stack |-> ""]

\* nothing written to the server's log for this request
NoLog == [message |-> "", path |-> "", method |-> "", stack |-> ""]

\* app.handle: Express sets X-Powered-By before the first middleware
NewRequest(c, k) ==
  [client |-> c, method |-> k.method, path |-> k.path, origin |-> k.origin,
   acrm |-> k.acrm, body |-> k.body,
   pos |-> 1, stage |-> "run", status |-> 0, resBody |-> "",
   headers |-> ("x-powered-by" :> "Express"),
   trace |-> <<>>, endedBy |-> "", errStatus |-> 0, errMessage |-> "",
   errBody |-> NoErrorBody, log |-> NoLog,
   aborted |-> FALSE, hits |-> 0, remaining |-> 0, nth |-> 0, reset |-> 0,
   counted |-> 0, decremented |-> FALSE]

At(q, name) ==
  /\ BagIn(q, reqs)
  /\ q.stage = "run"
  /\ Stack[q.pos] = name

Put(q, r) == reqs' = (reqs (-) SetToBag({q})) (+) SetToBag({r})

\* next(): on to the following middleware
Passed(r, name) == [r EXCEPT !.pos = @ + 1, !.trace = Append(@, name)]

\* the response is ended by this stage
Ended(r, name, status, body) ==
  [r EXCEPT !.stage = "done", !.status = status, !.resBody = body,
            !.trace = Append(@, name), !.endedBy = name]

Receive(c, k, max) ==
  /\ arrivals < max
  /\ arrivals' = arrivals + 1
  /\ reqs' = reqs (+) SetToBag({NewRequest(c, k)})
  /\ UNCHANGED <<form, proc, calc, deployment, clock, store, ref>>

\* a request arrives while others are in flight
Arrive(c, k) ==
  /\ BagCardinality(reqs) < MaxInFlight
  /\ Receive(c, k, MaxRequests)

\* a request arrives at an idle server
ArriveIdle(c, k) ==
  /\ reqs = EmptyBag
  /\ Receive(c, k, MaxSerial)

Helmet(q) ==
  /\ At(q, "helmet")
  /\ Put(q, [Passed(q, "helmet") EXCEPT !.headers = HelmetApply(@)])
  /\ UNCHANGED <<form, proc, calc, deployment, clock, store, arrivals, ref>>

\* cors(corsConfig): a preflight (OPTIONS) is ended here with 204 when the
\* origin option is truthy; otherwise next()
Cors(q) ==
  /\ At(q, "cors")
  /\ LET r == q IN
     IF ~CorsRuns(corsConfig)
     THEN Put(q, Passed(r, "cors"))
     ELSE LET h == CorsHeaders(corsConfig, r, r.headers) IN
          IF r.method = "OPTIONS"
          THEN Put(q, [Ended(r, "cors", 204, "") EXCEPT !.headers = h])
          ELSE Put(q, [Passed(r, "cors") EXCEPT !.headers = h])
  /\ UNCHANGED <<form, proc, calc, deployment, clock, store, arrivals, ref>>


(* The window counter as specified: reset when now - windowStart >= window,
   then count.  prevCount keeps the count the previous window ended with;
   admitted counts the requests the limiter let through in this window. *)
RefInit == [started |-> FALSE, windowStart |-> 0, count |-> 0, prevCount |-> 0,
            admitted |-> 0]

RefCount(rf, now, passed) ==
  LET w == IF ~rf.started \/ now - rf.windowStart >= rateLimitConfig.windowMs
           THEN [started |-> TRUE, windowStart |-> now, count |-> 0,
                 prevCount |-> rf.count, admitted |-> 0]
           ELSE rf
  IN [w EXCEPT !.count = @ + 1, !.admitted = @ + (IF passed THEN 1 ELSE 0)]

\* rateLimit(rateLimitConfig): key = req.ip; store.increment; RateLimit
\* headers; 429 with the configured message when totalHits > limit
RateLimit(q) ==
  /\ At(q, "rateLimit")
  /\ LET r == q
         cfg == rateLimitConfig
         st == increment(store, r.client, clock)
         totalHits == st[r.client].totalHits
         rejected == limitExceeded(totalHits)
         h1 == SetHeader(SetHeader(r.headers,
                 "ratelimit-policy",
                   "q=" \o ToString(cfg.limit) \o
                   "; w=" \o ToString(cfg.windowMs)),
                 "ratelimit",
                   "r=" \o ToString(remainingOf(totalHits)) \o
                   "; t=" \o ToString(st[r.client].resetTime - clock))
         rf == RefCount(ref[r.client], clock, ~rejected)
         r1 == [r EXCEPT !.hits = totalHits, !.remaining = remainingOf(totalHits),
                         !.counted = @ + 1, !.nth = rf.count,
                         !.reset = rf.windowStart + cfg.windowMs - clock]
     IN /\ store' = st
        /\ ref' = [ref EXCEPT ![r.client] = rf]
        /\ IF rejected
           THEN Put(q, [Ended(r1, "rateLimit", cfg.statusCode,
                              cfg.message)
                          EXCEPT !.headers = SetHeader(h1, "retry-after",
                                   ToString(st[r.client].resetTime - clock))])
           ELSE Put(q, [Passed(r1, "rateLimit") EXCEPT !.headers = h1])
  /\ UNCHANGED <<form, proc, calc, deployment, clock, arrivals>>

\* express.json({limit: '10kb'}): a malformed body is a 400 error
JsonParser(q) ==
  /\ At(q, "json")
  /\ LET r == q IN
     IF r.body = "badjson"
     THEN Put(q, [r EXCEPT !.stage = "error", !.errStatus = 400,
                           !.errMessage = "Unexpected token } in JSON at position 1",
                           !.trace = Append(@, "json")])
     ELSE Put(q, Passed(r, "json"))
  /\ UNCHANGED <<form, proc, calc, deployment, clock, store, arrivals, ref>>

\* express.urlencoded({limit: '10kb'}): an oversized form is a 413 error
UrlencodedParser(q) ==
  /\ At(q, "urlencoded")
  /\ LET r == q IN
     IF r.body = "largeform"
     THEN Put(q, [r EXCEPT !.stage = "error", !.errStatus = 413,
                           !.errMessage = "request entity too large",
                           !.trace = Append(@, "urlencoded")])
     ELSE Put(q, Passed(r, "urlencoded"))
  /\ UNCHANGED <<form, proc, calc, deployment, clock, store, arrivals, ref>>

\* the routes and what follows them: the 404 middleware of the secure server;
\* in the toggle-able server Express's automatic OPTIONS answer and its
\* final handler, which replaces the CSP and sets nosniff
RouteResponse(r) ==
  IF deployment.server = "secure"
  THEN IF r.method = "GET" /\ r.path = "/"
       THEN Ended(r, "GET /", 200, "Hello, World!\n")
       ELSE IF r.method = "GET" /\ r.path = "/health"
       THEN Ended(r, "GET /health", 200, "{status: healthy}")
       ELSE Ended(r, "notFound", 404, "{error: Not Found}")
  ELSE IF r.method = "GET" /\ r.path = "/"
       THEN Ended(r, "GET /", 200, "Hello, World!\n")
       ELSE IF r.method = "GET" /\ r.path = "/evening"
       THEN Ended(r, "GET /evening", 200, "Good evening")
       ELSE IF r.method = "OPTIONS" /\ r.path \in {"/", "/evening"}
       THEN [Ended(r, "options", 200, "GET, HEAD")
               EXCEPT !.headers = SetHeader(@, "allow", "GET, HEAD")]
       ELSE [Ended(r, "finalhandler", 404, "Cannot " \o r.method \o " " \o r.path)
               EXCEPT !.headers = SetHeader(SetHeader(@,
                          "content-security-policy", "default-src 'none'"),
                          "x-content-type-options", "nosniff")]

Route(q) ==
  /\ At(q, "route")
  /\ Put(q, RouteResponse(q))
  /\ UNCHANGED <<form, proc, calc, deployment, clock, store, arrivals, ref>>

\* the global error handler of the secure server
StackOf(message) == "Error: " \o message \o "\n    at parse (body-parser)"

ErrorResponse(r) ==
  LET statusCode == IF r.errStatus # 0 THEN r.errStatus ELSE 500
      errorResponse ==
        [error |-> IF statusCode = 500 THEN "Internal Server Error" ELSE r.errMessage,
         message |-> IF isProduction
                     THEN "An unexpected error occurred. Please try again later."
                     ELSE r.errMessage,
         stack |-> IF isDevelopment THEN StackOf(r.errMessage) ELSE ""]
      \* console.error(..., { message, path, method, ...(isDevelopment && { stack }) })
      logged ==
        [message |-> r.errMessage, path |-> r.path, method |-> r.method,
         stack |-> IF isDevelopment THEN StackOf(r.errMessage) ELSE ""]
  IN [Ended(r, "errorHandler", statusCode, "errorResponse")
        EXCEPT !.errBody = errorResponse, !.log = logged]

ErrorHandler(q) ==
  /\ BagIn(q, reqs)
  /\ q.stage = "error"
  /\ Put(q, ErrorResponse(q))
  /\ UNCHANGED <<form, proc, calc, deployment, clock, store, arrivals, ref>>

\* the limiter's res.on('finish') listeners, registered when a skip option is set
OnFinish(st, r) ==
  IF /\ r.counted > 0 /\ ~r.decremented
     /\ \/ rateLimitConfig.skipFailedRequests /\ r.status >= 400
        \/ rateLimitConfig.skipSuccessfulRequests /\ r.status < 400
  THEN decrement(st, r.client) ELSE st

\* the limiter's res.on('close') listener: the client went away before the end
OnClose(st, r) ==
  IF r.counted > 0 /\ ~r.decremented /\ rateLimitConfig.skipFailedRequests
  THEN decrement(st, r.client) ELSE st

\* the response has been written out (or dropped, for a client that left)
Complete(q) ==
  /\ BagIn(q, reqs)
  /\ q.stage = "done"
  /\ store' = IF q.aborted THEN store ELSE OnFinish(store, q)
  /\ reqs' = reqs (-) SetToBag({q})
  /\ UNCHANGED <<form, proc, calc, deployment, clock, arrivals, ref>>

\* the client disconnects while its request is in the pipeline
Disconnect(q) ==
  /\ BagIn(q, reqs)
  /\ q.stage # "done"
  /\ ~q.aborted
  /\ store' = OnClose(store, q)
  /\ Put(q, [q EXCEPT !.aborted = TRUE,
                            !.decremented = (store' # store),
                            !.counted = IF store' # store THEN @ - 1 ELSE @])
  /\ UNCHANGED <<form, proc, calc, deployment, clock, arrivals, ref>>

Tick ==
  /\ clock < MaxClock
  /\ clock' = clock + 1
  /\ UNCHANGED <<form, proc, calc, deployment, store, reqs, arrivals, ref>>

\* MemoryStore.clearExpired (interval of windowMs): a client untouched for two
\* interval ticks is dropped, which only ever happens after its resetTime
ClearExpired(c) ==
  /\ c \in DOMAIN store
  /\ store[c].resetTime <= clock
  /\ store' = [k \in (DOMAIN store) \ {c} |-> store[k]]
  /\ UNCHANGED <<form, proc, calc, deployment, clock, reqs, arrivals, ref>>

-----------------------------------------------------------------------------
(* Specifications of the request pipeline *)

InitPipeline ==
  /\ clock = 0
  /\ store = << >>
  /\ reqs = EmptyBag
  /\ arrivals = 0
  /\ ref = [c \in Clients |-> RefInit]
  /\ form = <<>>
  /\ proc = <<>>
  /\ calc = <<>>

Step(q) ==
  \/ Helmet(q)
  \/ Cors(q)
  \/ RateLimit(q)
  \/ JsonParser(q)
  \/ UrlencodedParser(q)
  \/ Route(q)
  \/ ErrorHandler(q)
  \/ Complete(q)

\* every deployment, every kind of request, one request at a time
Init ==
  /\ deployment \in Deployments
  /\ InitPipeline

Next ==
  \/ \E c \in Clients, k \in RequestKinds : ArriveIdle(c, k)
  \/ \E q \in BagToSet(reqs) : Step(q)

Spec == Init /\ [][Next]_vars

\* the default secure deployment under concurrent requests
InitConcurrent ==
  /\ deployment = BaseDeployment
  /\ InitPipeline

NextConcurrent ==
  \/ \E k \in PlainKinds : Arrive("A", k)
  \/ \E q \in BagToSet(reqs) : Step(q)
  \/ \E q \in BagToSet(reqs) : Disconnect(q)
  \/ Tick
  \/ \E c \in Clients : ClearExpired(c)

SpecConcurrent == InitConcurrent /\ [][NextConcurrent]_vars

-----------------------------------------------------------------------------
(* Properties of the request pipeline *)

InFlight == BagToSet(reqs)

InTrace(r, name) == \E k \in 1..Len(r.trace) : r.trace[k] = name

Limit == rateLimitConfig.limit

\* C1: with ceiling N and window W, the requests of one identity that the
\* specified window counter numbers 1..N are admitted, the (N+1)-th and every
\* later one of that window is rejected with 429, and the first request at or
\* after windowStart + W is admitted again with remaining = N - 1.
C1_RateWindow ==
  LET N == Limit IN
  \A r \in InFlight :
    r.nth > 0 =>
      /\ r.nth <= N => r.status # 429 /\ r.endedBy # "rateLimit"
      /\ r.nth > N => r.status = 429 /\ r.endedBy = "rateLimit"
      /\ r.nth = 1 => r.remaining = N - 1
      /\ r.remaining = Max(N - r.nth, 0)

\* a request that opens a second window, after a window that saw a rejection,
\* answered 200 with remaining = N - 1
C1_Witness ==
  \E r \in InFlight :
    /\ r.nth = 1
    /\ ref[r.client].prevCount > Limit
    /\ ref[r.client].windowStart >= rateLimitConfig.windowMs
    /\ r.stage = "done" /\ r.status = 200
    /\ r.remaining = Limit - 1

HardenedHeaders ==
  {"content-security-policy", "strict-transport-security", "x-frame-options",
   "referrer-policy", "cross-origin-resource-policy", "cross-origin-opener-policy"}

HardenedValues ==
  ("x-content-type-options" :> "nosniff") @@
  ("x-dns-prefetch-control" :> "off") @@
  ("x-permitted-cross-domain-policies" :> "none") @@
  ("x-download-options" :> "noopen") @@
  ("origin-agent-cluster" :> "?1")

FullyHardened(h) ==
  /\ HardenedHeaders \subseteq DOMAIN h
  /\ \A k \in DOMAIN HardenedValues : k \in DOMAIN h /\ h[k] = HardenedValues[k]
  /\ "x-powered-by" \notin DOMAIN h

HelmetMounted == \E k \in 1..Len(Stack) : Stack[k] = "helmet"

C3_NoCredentialsWithWildcard ==
  \A r \in InFlight :
    ~ /\ HasHeader(r.headers, "access-control-allow-credentials")
      /\ r.headers["access-control-allow-credentials"] = "true"
      /\ HasHeader(r.headers, "access-control-allow-origin")
      /\ r.headers["access-control-allow-origin"] = "*"

Rank(name) ==
  CASE name = "helmet" -> 1
    [] name = "cors" -> 2
    [] name = "rateLimit" -> 3
    [] name = "json" -> 4
    [] name = "urlencoded" -> 5
    [] OTHER -> 6

RouteHandlers == {"GET /", "GET /health", "GET /evening", "notFound", "options",
                  "finalhandler"}

\* C5: in the secure server the stages of every request run in the order
\* helmet, cors, rateLimit, json, urlencoded, route or 404 handler, none
\* skipped; the hardened headers are on the response before any stage ends
\* it; a request the limiter rejects is never body-parsed or routed.
C5_StageOrder ==
  \A r \in InFlight :
    deployment.server = "secure" =>
      /\ \A k \in 1..Len(r.trace) :
           \/ Rank(r.trace[k]) = k
           \/ r.trace[k] = "errorHandler" /\ k = Len(r.trace)
      /\ \A k \in 1..Len(r.trace) :
           r.trace[k] \in RouteHandlers => k = 6
      /\ r.stage = "done" => r.trace[1] = "helmet" /\ FullyHardened(r.headers)
      /\ r.status = 429 =>
           /\ r.trace = <<"helmet", "cors", "rateLimit">>
           /\ r.stage = "done"

\* a request rejected by the limiter of the secure server
C5_Witness ==
  \E r \in InFlight :
    /\ deployment.server = "secure"
    /\ r.status = 429
    /\ r.body # "none"
    /\ r.trace = <<"helmet", "cors", "rateLimit">>

ListMembers(l) == {l[k] : k \in 1..Len(l)}

\* C6: once the CORS stage has run, Access-Control-Allow-Origin is on the
\* response iff the policy is a list that contains the request's Origin, and
\* then it is that Origin; without it GET / is still answered 200 (unless
\* throttled).
C6_OriginDecision ==
  \A r \in InFlight :
    InTrace(r, "cors") =>
      /\ HasHeader(r.headers, "access-control-allow-origin") <=>
           /\ ~corsConfig.origin.deny
           /\ r.origin.present
           /\ r.origin.val \in ListMembers(corsConfig.origin.list)
      /\ HasHeader(r.headers, "access-control-allow-origin") =>
           r.headers["access-control-allow-origin"] = r.origin.val
      /\ (r.stage = "done" /\ r.method = "GET" /\ r.path = "/"
            /\ r.endedBy # "rateLimit") => r.status = 200

\* an origin outside the allow-list: no allow-origin header, status 200
C6_Witness ==
  \E r \in InFlight :
    /\ ~corsConfig.origin.deny /\ corsConfig.origin.list # <<>>
    /\ r.origin = OriginHeader(EvilOrigin)
    /\ r.stage = "done" /\ r.status = 200
    /\ ~HasHeader(r.headers, "access-control-allow-origin")

IsPreflight(r) == r.method = "OPTIONS" /\ r.origin.present /\ r.acrm

\* C7 as claimed: a preflight is always ended at the CORS stage with a 2xx,
\* for every origin policy.
C7_PreflightAlwaysEndsAtCors ==
  \A r \in InFlight :
    (IsPreflight(r) /\ InTrace(r, "cors")) =>
      /\ r.endedBy = "cors"
      /\ r.status \in 200..299

\* C7 amended: a preflight is ended at the CORS stage (204, never throttled,
\* parsed or routed) exactly when the origin policy is a list; under deny-all
\* the CORS stage passes it on, it is counted by the limiter and answered by
\* the router: 404 in the secure server, 200 or 404 in the toggle-able one,
\* or 429.
C7_PreflightEndsAtCorsUnlessDenyAll ==
  \A r \in InFlight :
    (IsPreflight(r) /\ InTrace(r, "cors")) =>
      IF corsConfig.origin.deny
      THEN /\ r.endedBy # "cors"
           /\ r.stage = "done" =>
                /\ InTrace(r, "rateLimit")
                /\ r.status \in (IF deployment.server = "secure"
                                 THEN {404, 429} ELSE {200, 404, 429})
      ELSE /\ r.stage = "done" /\ r.endedBy = "cors" /\ r.status = 204
           /\ r.trace = <<"helmet", "cors">>

\* a preflight from an origin outside the allow-list, ended by the CORS stage
C7_Witness ==
  \E r \in InFlight :
    /\ IsPreflight(r)
    /\ ~corsConfig.origin.deny
    /\ r.origin.val \notin ListMembers(corsConfig.origin.list)
    /\ r.endedBy = "cors" /\ r.status = 204

\* C8: under every interleaving of the in-flight requests of one identity,
\* at most N of them are admitted per window.
C8_ThrottleAtomicity ==
  LET N == Limit IN \A c \in Clients : ref[c].admitted <= N

\* two requests of one identity in flight in the same window: the N-th
\* admitted and still running, the (N+1)-th rejected
C8_Witness ==
  \E p, q \in InFlight :
    /\ p # q /\ p.client = q.client
    /\ p.nth = Limit /\ p.stage = "run"
    /\ q.nth = Limit + 1 /\ q.status = 429
    /\ ref[p.client].admitted = Limit

\* C9: every request that reaches the throttle is counted exactly once,
\* whatever its path, method, status or a disconnect; the identity's counter
\* is the number of requests that reached the throttle in the window.
C9_OneCountPerRequest ==
  /\ \A r \in InFlight :
       r.counted = (IF InTrace(r, "rateLimit") THEN 1 ELSE 0)
  /\ \A c \in DOMAIN store : store[c].totalHits = ref[c].count

\* a rejected request whose client has gone is still counted
C9_Witness ==
  \E r \in InFlight :
    /\ r.aborted /\ r.status = 429 /\ r.counted = 1
    /\ r.client \in DOMAIN store
    /\ store[r.client].totalHits = Limit + 1

-----------------------------------------------------------------------------
(* Character-level text of middleware/validation.js.  A text is a sequence
   of characters; the backquote is written "backquote". *)

\* a value is undefined, a number, or a string holding a text
Undefined == [type |-> "undefined", text |-> <<>>]
Number7 == [type |-> "number", text |-> <<"7">>]
Str(t) == [type |-> "string", text |-> t]

UpperLetters ==
  <<"A", "B", "C", "D", "E", "F", "G", "H", "I", "J", "K", "L", "M",
    "N", "O", "P", "Q", "R", "S", "T", "U", "V", "W", "X", "Y", "Z">>

LowerLetters ==
  <<"a", "b", "c", "d", "e", "f", "g", "h", "i", "j", "k", "l", "m",
    "n", "o", "p", "q", "r", "s", "t", "u", "v", "w", "x", "y", "z">>

IsUpper(c) == \E i \in 1..Len(UpperLetters) : UpperLetters[i] = c
IsLetter(c) == IsUpper(c) \/ \E i \in 1..Len(LowerLetters) : LowerLetters[i] = c
IsDigit(c) == c \in Digits
\* \w
IsWordChar(c) == IsLetter(c) \/ IsDigit(c) \/ c = "_"
\* [a-zA-Z0-9_\-./]
IsPathChar(c) == IsWordChar(c) \/ c \in {"-", ".", "/"}

\* the i flag of a pattern
ToLower(c) ==
  IF IsUpper(c)
  THEN LowerLetters[CHOOSE i \in 1..Len(UpperLetters) : UpperLetters[i] = c]
  ELSE c

HTML_ESCAPE_MAP ==
  ("&" :> <<"&", "a", "m", "p", ";">>) @@
  ("<" :> <<"&", "l", "t", ";">>) @@
  (">" :> <<"&", "g", "t", ";">>) @@
  ("\"" :> <<"&", "q", "u", "o", "t", ";">>) @@
  ("'" :> <<"&", "#", "x", "2", "7", ";">>) @@
  ("/" :> <<"&", "#", "x", "2", "F", ";">>) @@
  ("backquote" :> <<"&", "#", "x", "6", "0", ";">>) @@
  ("=" :> <<"&", "#", "x", "3", "D", ";">>)

\* an escapeHtml that leaves the ampersand alone
RECURSIVE escapeHtmlText_keepAmp(_)
escapeHtmlText_keepAmp(t) ==
  IF t = <<>> THEN <<>>
  ELSE (IF Head(t) \in DOMAIN HTML_ESCAPE_MAP \ {"&"}
        THEN HTML_ESCAPE_MAP[Head(t)] ELSE <<Head(t)>>) \o escapeHtmlText_keepAmp(Tail(t))

\* str.replace(/[&<>"'`=/]/g, (char) => HTML_ESCAPE_MAP[char] || char)
RECURSIVE escapeHtmlText(_)
escapeHtmlText(t) ==
  IF t = <<>> THEN <<>>
  ELSE (IF Head(t) \in DOMAIN HTML_ESCAPE_MAP
        THEN HTML_ESCAPE_MAP[Head(t)] ELSE <<Head(t)>>) \o escapeHtmlText(Tail(t))

\* a value that is not a string is returned as it is
escapeHtml(v) == IF v.type # "string" THEN v ELSE Str(escapeHtmlText(v.text))

\* the end of the longest run of characters satisfying P that starts at i
\* (i - 1 when s[i] does not satisfy it)
RunEnd(s, i, P(_)) ==
  CHOOSE j \in (i - 1)..Len(s) :
    /\ \A x \in i..j : P(s[x])
    /\ (j < Len(s) => ~P(s[j + 1]))

REDACTED == <<"[", "R", "E", "D", "A", "C", "T", "E", "D", "]">>

(* The patterns of sanitizeErrorMessage.  Each XMatchEnd(s, i) is the end of
   the match of the pattern that starts at position i, or 0 when there is
   none; ReplaceX is sanitized.replace(pattern, '[REDACTED]') with the g
   flag: leftmost matches, scanning on after each one. *)

\* /\/[a-zA-Z0-9_\-./]+\.[a-zA-Z]+/ : a slash, a greedy run of path
\* characters that backtracks to its last dot followed by a letter, then the
\* letters after that dot
PathMatchEnd(s, i) ==
  IF s[i] # "/" THEN 0
  ELSE LET k == RunEnd(s, i + 1, IsPathChar)
           dots == {d \in (i + 2)..k : s[d] = "." /\ d < Len(s) /\ IsLetter(s[d + 1])}
       IN IF dots = {} THEN 0
          ELSE LET d == CHOOSE x \in dots : \A y \in dots : y <= x
               IN RunEnd(s, d + 1, IsLetter)

RECURSIVE ReplacePaths(_, _)
ReplacePaths(s, i) ==
  IF i > Len(s) THEN <<>>
  ELSE LET e == PathMatchEnd(s, i) IN
       IF e >= i THEN REDACTED \o ReplacePaths(s, e + 1)
       ELSE <<s[i]>> \o ReplacePaths(s, i + 1)

SqlKeywords ==
  << <<"s", "e", "l", "e", "c", "t">>, <<"i", "n", "s", "e", "r", "t">>,
     <<"u", "p", "d", "a", "t", "e">>, <<"d", "e", "l", "e", "t", "e">>,
     <<"f", "r", "o", "m">>, <<"w", "h", "e", "r", "e">> >>

KeywordAt(s, i, w) ==
  /\ i + Len(w) - 1 <= Len(s)
  /\ \A x \in 1..Len(w) : ToLower(s[i + x - 1]) = w[x]

\* /SELECT|INSERT|UPDATE|DELETE|FROM|WHERE/gi
SqlMatchEnd(s, i) ==
  LET hits == {n \in 1..Len(SqlKeywords) : KeywordAt(s, i, SqlKeywords[n])} IN
  IF hits = {} THEN 0
  ELSE LET n == CHOOSE x \in hits : \A y \in hits : x <= y
       IN i + Len(SqlKeywords[n]) - 1

RECURSIVE ReplaceSql(_, _)
ReplaceSql(s, i) ==
  IF i > Len(s) THEN <<>>
  ELSE LET e == SqlMatchEnd(s, i) IN
       IF e >= i THEN REDACTED \o ReplaceSql(s, e + 1)
       ELSE <<s[i]>> \o ReplaceSql(s, i + 1)

\* \b at the gap before position i
WordBoundary(s, i) ==
  (i > 1 /\ i - 1 <= Len(s) /\ IsWordChar(s[i - 1])) #
  (i <= Len(s) /\ IsWordChar(s[i]))

\* \d{1,3} followed by the rest of the pattern: the end of a run of one to
\* three digits starting at i, or 0
OctetEnd(s, i) ==
  IF i > Len(s) THEN 0
  ELSE LET e == RunEnd(s, i, IsDigit) IN
       IF e >= i /\ e - i + 1 <= 3 THEN e ELSE 0

\* /\b\d{1,3}\.\d{1,3}\.\d{1,3}\.\d{1,3}\b/
IpMatchEnd(s, i) ==
  IF ~WordBoundary(s, i) THEN 0
  ELSE LET a == OctetEnd(s, i)
           b == IF a > 0 /\ a < Len(s) /\ s[a + 1] = "." THEN OctetEnd(s, a + 2) ELSE 0
           c == IF b > 0 /\ b < Len(s) /\ s[b + 1] = "." THEN OctetEnd(s, b + 2) ELSE 0
           d == IF c > 0 /\ c < Len(s) /\ s[c + 1] = "." THEN OctetEnd(s, c + 2) ELSE 0
       IN IF d > 0 /\ WordBoundary(s, d + 1) THEN d ELSE 0

RECURSIVE ReplaceIps(_, _)
ReplaceIps(s, i) ==
  IF i > Len(s) THEN <<>>
  ELSE LET e == IpMatchEnd(s, i) IN
       IF e >= i THEN REDACTED \o ReplaceIps(s, e + 1)
       ELSE <<s[i]>> \o ReplaceIps(s, i + 1)

\* MAX_MESSAGE_LENGTH, scaled down
MaxMessageLength == 40
\* the messages given to sanitizeErrorMessage: up to MaxSegments pieces
MaxSegments == 3

\* the seven replacements in order; the stack-trace pattern needs a
\* parenthesis and the three connection-string patterns need "://", which
\* no message of MessageTexts contains
redact(t) == ReplaceIps(ReplaceSql(ReplacePaths(t, 1), 1), 1)

truncate(t) ==
  IF Len(t) > MaxMessageLength
  THEN SubSeq(t, 1, MaxMessageLength) \o <<".", ".", ".">>
  ELSE t

InvalidInput == <<"I", "n", "v", "a", "l", "i", "d", " ", "i", "n", "p", "u", "t">>

sanitizeErrorMessage(message) ==
  IF message.type # "string" THEN InvalidInput
  ELSE escapeHtmlText(truncate(redact(message.text)))

-----------------------------------------------------------------------------
(* A route with field rules followed by handleValidationErrors:
     app.post(path, sanitizeString('name'),
                    validateStringLength('title', 1, MaxTitle),
                    handleValidationErrors, handler)
   Field values are undefined, a number, or a text (sequence of characters). *)

MaxText == 2
MaxTitle == 1

Chars == {" ", "a", "<"}

Texts == UNION {[1..n -> Chars] : n \in 0..MaxText}

FieldValues == {Undefined, Number7} \cup {Str(t) : t \in Texts}

DeclaredFields == {"name", "title"}

\* the characters of a field name, for the messages built from it
NameText(fieldName) ==
  CASE fieldName = "name" -> <<"n", "a", "m", "e">>
    [] fieldName = "title" -> <<"t", "i", "t", "l", "e">>

\* `${fieldName} is required` and the other message templates
IsRequired(fieldName) == NameText(fieldName) \o <<" ", "i", "s", " ", "r", "e", "q", "u", "i", "r", "e", "d">>
MustBeString(fieldName) == NameText(fieldName) \o <<" ", "m", "u", "s", "t", " ", "b", "e", " ", "a", " ", "s", "t", "r", "i", "n", "g">>
CannotBeEmpty(fieldName) == NameText(fieldName) \o <<" ", "c", "a", "n", "n", "o", "t", " ", "b", "e", " ", "e", "m", "p", "t", "y">>
MustBeBetween(fieldName, min, max) ==
  NameText(fieldName) \o <<" ", "m", "u", "s", "t", " ", "b", "e", " ", "b", "e", "t", "w", "e", "e", "n", " ">> \o <<ToString(min)>> \o
  <<" ", "a", "n", "d", " ">> \o <<ToString(max)>> \o <<" ", "c", "h", "a", "r", "a", "c", "t", "e", "r", "s">>

Payloads == [DeclaredFields -> FieldValues]

\* express-validator's toString: undefined becomes '', a number its digits
toString(v) == v.text

\* validator.js escape, character by character (the backquote, which it
\* also replaces, is outside the alphabet of the texts)
EscapeChar(c) ==
  CASE c = "&" -> <<"&", "a", "m", "p", ";">>
    [] c = "\"" -> <<"&", "q", "u", "o", "t", ";">>
    [] c = "'" -> <<"&", "#", "x", "2", "7", ";">>
    [] c = "<" -> <<"&", "l", "t", ";">>
    [] c = ">" -> <<"&", "g", "t", ";">>
    [] c = "/" -> <<"&", "#", "x", "2", "F", ";">>
    [] c = "\\" -> <<"&", "#", "x", "5", "C", ";">>
    [] OTHER -> <<c>>

RECURSIVE Escape(_)
Escape(t) == IF t = <<>> THEN <<>> ELSE EscapeChar(Head(t)) \o Escape(Tail(t))

\* .exists({ checkFalsy })
exists(v, checkFalsy) ==
  IF checkFalsy
  THEN v.type = "number" \/ (v.type = "string" /\ v.text # <<>>)
  ELSE v.type # "undefined"

\* .isString()
isString(v) == v.type = "string"

\* .trim() and .escape(): standard sanitizers work on toString(value)
trim(v) == Str(Trim(toString(v)))
escape(v) == Str(Escape(toString(v)))

\* .notEmpty()
notEmpty(v) == toString(v) # <<>>

\* .isLength({ min, max })
isLength(v, min, max) == Len(toString(v)) >= min /\ Len(toString(v)) <= max

FieldError(path, msg) == [path |-> path, msg |-> msg, location |-> "body"]

\* a failing validator adds its error and the chain goes on (no .bail())
Check(ok, errors, path, msg) ==
  IF ok THEN errors ELSE Append(errors, FieldError(path, msg))

\* the runner writes a sanitized value back to req.body when it changed
WriteBack(body, path, v) ==
  IF body[path] # v THEN [body EXCEPT ![path] = v] ELSE body

sanitizeString(fieldName, f) ==
  LET v0 == f.body[fieldName]
      e1 == Check(exists(v0, FALSE), f.errors, fieldName, IsRequired(fieldName))
      e2 == Check(isString(v0), e1, fieldName, MustBeString(fieldName))
      v1 == trim(v0)
      v2 == escape(v1)
      e3 == Check(notEmpty(v2), e2, fieldName, CannotBeEmpty(fieldName))
  IN [f EXCEPT !.body = WriteBack(f.body, fieldName, v2), !.errors = e3]

validateStringLength(fieldName, min, max, f) ==
  LET v0 == f.body[fieldName]
      e1 == Check(exists(v0, min # 0), f.errors, fieldName, IsRequired(fieldName))
      e2 == Check(isString(v0), e1, fieldName, MustBeString(fieldName))
      v1 == trim(v0)
      e3 == Check(isLength(v1, min, max), e2, fieldName, MustBeBetween(fieldName, min, max))
      v2 == escape(v1)
  IN [f EXCEPT !.body = WriteBack(f.body, fieldName, v2), !.errors = e3]

\* error.path is never empty here and error.location is always 'body'
safeError(error) ==
  [field |-> error.path, message |-> sanitizeErrorMessage(Str(error.msg)),
   type |-> "validation_error", location |-> error.location]

\* variant: only the first error is reported
handleValidationErrors_firstOnly(f) ==
  IF f.errors # <<>>
  THEN [f EXCEPT !.stage = "done", !.status = 400,
                 !.details = <<safeError(f.errors[1])>>]
  ELSE [f EXCEPT !.stage = "handler"]

handleValidationErrors(f) ==
  IF f.errors # <<>>
  THEN [f EXCEPT !.stage = "done", !.status = 400,
                 !.details = [k \in 1..Len(f.errors) |-> safeError(f.errors[k])]]
  ELSE [f EXCEPT !.stage = "handler"]

NewForm(p) ==
  [payload |-> p, body |-> p, errors |-> <<>>, stage |-> "sanitizeString",
   status |-> 0, details |-> <<>>, handled |-> FALSE, seen |-> <<>>]

RunSanitizeString ==
  /\ form.stage = "sanitizeString"
  /\ form' = [sanitizeString("name", form) EXCEPT !.stage = "validateStringLength"]
  /\ UNCHANGED <<pipeVars, proc, calc>>

RunValidateStringLength ==
  /\ form.stage = "validateStringLength"
  /\ form' = [validateStringLength("title", 1, MaxTitle, form)
                EXCEPT !.stage = "handleValidationErrors"]
  /\ UNCHANGED <<pipeVars, proc, calc>>

HandleValidationErrors ==
  /\ form.stage = "handleValidationErrors"
  /\ form' = handleValidationErrors(form)
  /\ UNCHANGED <<pipeVars, proc, calc>>

\* the route handler: it sees req.body as the chains left it
Handler ==
  /\ form.stage = "handler"
  /\ form' = [form EXCEPT !.stage = "done", !.status = 200,
                          !.handled = TRUE, !.seen = form.body]
  /\ UNCHANGED <<pipeVars, proc, calc>>

InitValidation ==
  /\ deployment = BaseDeployment
  /\ clock = 0
  /\ store = << >>
  /\ reqs = EmptyBag
  /\ arrivals = 0
  /\ ref = [c \in Clients |-> RefInit]
  /\ proc = <<>>
  /\ calc = <<>>
  /\ form \in {NewForm(p) : p \in Payloads}

NextValidation ==
  \/ RunSanitizeString
  \/ RunValidateStringLength
  \/ HandleValidationErrors
  \/ Handler

SpecValidation == InitValidation /\ [][NextValidation]_vars

\* what the rules ask of each field, stated on the payload as received
ValidField(fieldName, v) ==
  /\ v.type = "string"
  /\ LET t == Trim(v.text) IN
       IF fieldName = "title" THEN Len(t) >= 1 /\ Len(t) <= MaxTitle
       ELSE t # <<>>

Violated(f) == {n \in DeclaredFields : ~ValidField(n, f.payload[n])}

\* C4: if a declared field is invalid the handler is never invoked, the
\* response is 400 and every violated field is in details; if every declared
\* field is valid no error is produced, the handler runs, and it sees every
\* declared field with its sanitized (trimmed, escaped) value.
C4_ValidationAllOrNothing ==
  /\ form.handled => Violated(form) = {}
  /\ form.stage = "done" =>
       IF Violated(form) # {}
       THEN /\ ~form.handled
            /\ form.seen = <<>>
            /\ form.status = 400
            /\ \A n \in Violated(form) :
                 \E k \in 1..Len(form.details) : form.details[k].field = n
       ELSE /\ form.errors = <<>>
            /\ form.handled
            /\ form.status = 200
            /\ \A n \in DeclaredFields :
                 form.seen[n] = Str(Escape(Trim(form.payload[n].text)))

\* one field valid (and rewritten by its sanitizers), the other invalid, both
\* invalid fields reported: nothing is forwarded
C4_Witness ==
  /\ form.stage = "done"
  /\ form.status = 400
  /\ ~form.handled
  /\ ValidField("title", form.payload["title"])
  /\ form.payload["name"] = Str(<<" ">>)
  /\ form.body["title"] # form.payload["title"]

\* the entries of details that are about a field
EntriesFor(f, fieldName) ==
  {k \in 1..Len(f.details) : f.details[k].field = fieldName}

\* C14 as claimed: a request that omits the field of a sanitizeString rule
\* gets 400 with exactly one details entry for that field, whose message is
\* "<field> is required" and whose location is "body".
C14_OneRequiredEntry ==
  (form.stage = "done" /\ form.payload["name"] = Undefined) =>
    /\ form.status = 400
    /\ Cardinality(EntriesFor(form, "name")) = 1
    /\ \A k \in EntriesFor(form, "name") :
         /\ form.details[k].message = IsRequired("name")
         /\ form.details[k].location = "body"

-----------------------------------------------------------------------------
(* The process of the secure server: certificate loading, listeners,
   connections, gracefulShutdown and exit.  A listener is "none" (null),
   "listening", "closing" (close() called, no new connections) or "closed"
   (its close callback has fired). *)

MaxConns == 2
\* the drain timeout of gracefulShutdown, in ticks
DrainTicks == 2

Listeners == {"https", "http"}

\* NODE_ENV: unset, development, production, or another name
NodeEnvValues ==
  {Unset, EnvText(<<"development">>), EnvText(<<"production">>), EnvText(<<"test">>)}

Signals == {"SIGTERM", "SIGINT"}

\* the four events whose handlers call gracefulShutdown
Triggers == Signals \cup {"uncaughtException", "unhandledRejection"}

\* the number of trigger events delivered to one process
MaxTriggers == 3

\* the ports the listeners bind
Ports == {"HTTPS_PORT", "PORT"}

NoResponse == [status |-> 0, headers |-> <<>>]

\* the redirect server's handler: res.writeHead(301, { Location, Content-Type })
redirectResponse ==
  [status |-> 301,
   headers |-> ("location" :> "https://host:HTTPS_PORT/") @@
               ("content-type" :> "text/plain")]

\* the app's answer to GET /: helmet is the first middleware of the app
appResponse ==
  [status |-> 200, headers |-> HelmetApply("x-powered-by" :> "Express")]

\* certs: whether the key file and the certificate file can be read
NewProcess(certs) ==
  [phase |-> "load", certs |-> certs, httpsOptions |-> FALSE, warned |-> FALSE,
   server |-> [l \in Listeners |-> "none"],
   handler |-> [l \in Listeners |-> "none"],
   port |-> [l \in Listeners |-> "none"],
   accepted |-> FALSE,
   conns |-> [l \in Listeners |-> 0],
   response |-> [l \in Listeners |-> NoResponse],
   isShuttingDown |-> FALSE, signal |-> "", timer |-> "none", elapsed |-> 0,
   closeOperations |-> {}, pending |-> {}, inFlightAtSignal |-> 0,
   triggers |-> 0, timersArmed |-> 0,
   closeCalls |-> [l \in Listeners |-> 0], closeErrors |-> {},
   exited |-> FALSE, code |-> 0]

exit(p, code) == [p EXCEPT !.exited = TRUE, !.code = code, !.phase = "exited"]

\* variant: a production process without certificates carries on
loadTlsCertificates_noExit(p) ==
  IF p.certs.key /\ p.certs.cert
  THEN [p EXCEPT !.httpsOptions = TRUE, !.phase = "start"]
  ELSE [p EXCEPT !.warned = TRUE, !.phase = "start"]

loadTlsCertificates(p) ==
  IF p.certs.key /\ p.certs.cert
  THEN [p EXCEPT !.httpsOptions = TRUE, !.phase = "start"]
  ELSE IF isProduction THEN exit(p, 1)
       ELSE [p EXCEPT !.warned = TRUE, !.phase = "start"]

\* server.listen(port): the listener is bound at once, or stays unbound
\* ("failed") when the port is already in use
listen(port, inUse) == IF port \in inUse THEN "failed" ELSE "listening"

\* with certificates: the app on HTTPS_PORT and the redirect server on PORT;
\* without: the app over plain HTTP on PORT
startServer(p, inUse) ==
  IF p.httpsOptions
  THEN [p EXCEPT !.server = ("https" :> listen("HTTPS_PORT", inUse)) @@
                            ("http" :> listen("PORT", inUse)),
                 !.handler = ("https" :> "app") @@ ("http" :> "redirect"),
                 !.port = ("https" :> "HTTPS_PORT") @@ ("http" :> "PORT"),
                 !.phase = "running"]
  ELSE [p EXCEPT !.server["http"] = listen("PORT", inUse),
                 !.handler["http"] = "app",
                 !.port["http"] = "PORT",
                 !.phase = "running"]

\* variant: a close callback that reports an error rejects its promise, and
\* the catch branch exits with code 1
allClosed_rejectOnError(p) ==
  IF p.pending = {}
  THEN exit([p EXCEPT !.timer = "cleared"], IF p.closeErrors = {} THEN 0 ELSE 1)
  ELSE p

\* Promise.all(closeOperations).then: every close callback resolves its
\* promise, with or without an error, so this runs as soon as the last
\* callback has fired, before any timer callback
allClosed(p) ==
  IF p.pending = {} THEN exit([p EXCEPT !.timer = "cleared"], 0) ELSE p

\* variant: the HTTP listener is left open
gracefulShutdown_httpsOnly(p, signal) ==
  IF p.isShuttingDown THEN p
  ELSE LET ops == {l \in {"https"} : p.server[l] # "none"} IN
       allClosed([p EXCEPT !.isShuttingDown = TRUE, !.signal = signal,
                           !.timer = "armed", !.elapsed = 0,
                           !.closeOperations = ops, !.pending = ops,
                           !.inFlightAtSignal = p.conns["https"] + p.conns["http"],
                           !.timersArmed = @ + 1,
                           !.closeCalls = [l \in Listeners |->
                                             IF l \in ops THEN @[l] + 1 ELSE @[l]],
                           !.closeErrors = @ \cup {l \in ops : p.server[l] # "listening"},
                           !.server = [l \in Listeners |->
                                         IF l \in ops THEN "closing" ELSE @[l]]])

\* variant: no isShuttingDown guard, every trigger starts a shutdown
gracefulShutdown_noGuard(p, signal) ==
  LET ops == {l \in Listeners : p.server[l] # "none"} IN
  allClosed([p EXCEPT !.isShuttingDown = TRUE, !.signal = signal,
                      !.timer = "armed", !.elapsed = 0,
                      !.closeOperations = ops, !.pending = ops,
                      !.inFlightAtSignal = p.conns["https"] + p.conns["http"],
                      !.timersArmed = @ + 1,
                      !.closeCalls = [l \in Listeners |->
                                        IF l \in ops THEN @[l] + 1 ELSE @[l]],
                      !.closeErrors = @ \cup {l \in ops : p.server[l] # "listening"},
                      !.server = [l \in Listeners |->
                                    IF l \in ops THEN "closing" ELSE @[l]]])

gracefulShutdown(p, signal) ==
  IF p.isShuttingDown THEN p
  ELSE LET ops == {l \in Listeners : p.server[l] # "none"} IN
       allClosed([p EXCEPT !.isShuttingDown = TRUE, !.signal = signal,
                           !.timer = "armed", !.elapsed = 0,
                           !.closeOperations = ops, !.pending = ops,
                           !.inFlightAtSignal = p.conns["https"] + p.conns["http"],
                           !.timersArmed = @ + 1,
                           !.closeCalls = [l \in Listeners |->
                                             IF l \in ops THEN @[l] + 1 ELSE @[l]],
                           !.closeErrors = @ \cup {l \in ops : p.server[l] # "listening"},
                           !.server = [l \in Listeners |->
                                         IF l \in ops THEN "closing" ELSE @[l]]])

LoadTlsCertificates ==
  /\ proc.phase = "load"
  /\ proc' = loadTlsCertificates(proc)
  /\ UNCHANGED <<pipeVars, form, calc>>

StartServer ==
  /\ proc.phase = "start"
  /\ \E inUse \in SUBSET Ports : proc' = startServer(proc, inUse)
  /\ UNCHANGED <<pipeVars, form, calc>>

\* a client connects to a listening socket and sends a request
Connect(l) ==
  /\ proc.phase = "running"
  /\ proc.server[l] = "listening"
  /\ proc.conns[l] < MaxConns
  /\ proc' = [proc EXCEPT !.conns[l] = @ + 1, !.accepted = TRUE]
  /\ UNCHANGED <<pipeVars, form, calc>>

\* the listener's handler answers an in-flight request and its connection
\* ends
Finish(l) ==
  /\ proc.phase = "running"
  /\ proc.conns[l] > 0
  /\ proc' = [proc EXCEPT !.conns[l] = @ - 1,
                          !.response[l] = IF proc.handler[l] = "redirect"
                                          THEN redirectResponse ELSE appResponse]
  /\ UNCHANGED <<pipeVars, form, calc>>

\* process.on('SIGTERM' / 'SIGINT' / 'uncaughtException' /
\* 'unhandledRejection'): each handler calls gracefulShutdown with its name
Signal(sig) ==
  /\ proc.phase = "running"
  /\ proc.triggers < MaxTriggers
  /\ proc' = gracefulShutdown([proc EXCEPT !.triggers = @ + 1], sig)
  /\ UNCHANGED <<pipeVars, form, calc>>

\* server.close(cb): cb fires once the listener has no connection left
CloseCallback(l) ==
  /\ proc.phase = "running"
  /\ proc.server[l] = "closing"
  /\ l \in proc.pending
  /\ proc.conns[l] = 0
  /\ proc' = allClosed([proc EXCEPT !.server[l] = "closed", !.pending = @ \ {l}])
  /\ UNCHANGED <<pipeVars, form, calc>>

\* time passes while the drain timer is armed
TickDrain ==
  /\ proc.phase = "running"
  /\ proc.timer = "armed"
  /\ proc.elapsed < DrainTicks
  /\ proc' = [proc EXCEPT !.elapsed = @ + 1]
  /\ UNCHANGED <<pipeVars, form, calc>>

\* the setTimeout callback of gracefulShutdown
DrainTimeout ==
  /\ proc.phase = "running"
  /\ proc.timer = "armed"
  /\ proc.elapsed = DrainTicks
  /\ proc' = exit([proc EXCEPT !.timer = "fired"], 1)
  /\ UNCHANGED <<pipeVars, form, calc>>

InitShutdown ==
  /\ deployment \in {[BaseDeployment EXCEPT !.NODE_ENV = e] : e \in NodeEnvValues}
  /\ clock = 0
  /\ store = << >>
  /\ reqs = EmptyBag
  /\ arrivals = 0
  /\ ref = [c \in Clients |-> RefInit]
  /\ form = <<>>
  /\ calc = <<>>
  /\ proc \in {NewProcess(certs) : certs \in [key : BOOLEAN, cert : BOOLEAN]}

NextShutdown ==
  \/ LoadTlsCertificates
  \/ StartServer
  \/ \E l \in Listeners : Connect(l)
  \/ \E l \in Listeners : Finish(l)
  \/ \E sig \in Triggers : Signal(sig)
  \/ \E l \in Listeners : CloseCallback(l)
  \/ TickDrain
  \/ DrainTimeout

\* timers and close callbacks are run by the event loop; clients are not
\* obliged to finish
SpecShutdown ==
  /\ InitShutdown
  /\ [][NextShutdown]_vars
  /\ WF_vars(TickDrain)
  /\ WF_vars(DrainTimeout)
  /\ WF_vars(\E l \in Listeners : CloseCallback(l))

Running(p) == {l \in Listeners : p.server[l] # "none"}

ShutdownSafe ==
  /\ proc.isShuttingDown =>
       \A l \in Running(proc) : proc.server[l] \in {"closing", "closed"}
  /\ (proc.isShuttingDown /\ proc.exited /\ proc.code = 0) =>
       /\ \A l \in Running(proc) : proc.server[l] = "closed" /\ proc.conns[l] = 0
       /\ proc.timer = "cleared"
  /\ (proc.isShuttingDown /\ proc.exited /\ proc.code = 1) =>
       /\ proc.timer = "fired"
       /\ proc.elapsed = DrainTicks
       /\ \E l \in Running(proc) : proc.server[l] # "closed"

NoNewConnections ==
  proc.isShuttingDown => \A l \in Listeners : proc'.conns[l] <= proc.conns[l]

\* C10: after SIGTERM or SIGINT every running listener is closed to new
\* connections while in-flight requests may finish; exit(0) happens only
\* after the close callback of every running listener has fired; exit(1)
\* happens when the drain timeout fires with a callback still missing; and
\* the process always terminates.
C10_GracefulShutdown ==
  /\ []ShutdownSafe
  /\ [][NoNewConnections]_vars
  /\ proc.isShuttingDown ~> proc.exited

\* both listeners were running with requests in flight at the signal, the
\* requests finished, both close callbacks fired, and the process exited 0
C10_Witness ==
  /\ proc.isShuttingDown /\ proc.exited /\ proc.code = 0
  /\ proc.closeOperations = Listeners
  /\ proc.inFlightAtSignal > 1
  /\ proc.elapsed > 0

-----------------------------------------------------------------------------
(* Start-up *)

TlsFailed(p) == ~(p.certs.key /\ p.certs.cert)

\* C11: when the key or the certificate cannot be loaded, a production
\* process exits with code 1 with no listener ever opened and no connection
\* ever accepted; a development process warns and serves the app over plain
\* HTTP on PORT, with no HTTPS listener and no redirect listener.
C11_TlsStartup ==
  (TlsFailed(proc) /\ proc.phase # "load") =>
    /\ isProduction =>
         /\ proc.exited /\ proc.code = 1
         /\ ~proc.isShuttingDown
         /\ \A l \in Listeners : proc.server[l] = "none" /\ proc.conns[l] = 0
         /\ ~proc.accepted
    /\ isDevelopment =>
         /\ proc.warned
         /\ ~proc.httpsOptions
         /\ proc.server["https"] = "none"
         /\ \A l \in Listeners : proc.handler[l] # "redirect"
         /\ proc.phase # "start" =>
              /\ proc.server["http"] # "none"
              /\ proc.handler["http"] = "app"
              /\ proc.port["http"] = "PORT"

\* production with the key present and the certificate missing: exit(1)
C11_Witness ==
  /\ isProduction
  /\ proc.certs.key /\ ~proc.certs.cert
  /\ proc.exited /\ proc.code = 1
  /\ \A l \in Listeners : proc.server[l] = "none"

-----------------------------------------------------------------------------
(* Error responses *)

OwnMessageIn(r) ==
  r.errMessage \in {r.errBody.error, r.errBody.message}

\* C12: a response of the global error handler carries the error's own
\* message or a stack only when the environment is development; in
\* production it carries generic text only.
C12_GenericErrorBody ==
  \A r \in InFlight :
    (r.endedBy = "errorHandler" /\ ~isDevelopment) =>
      /\ ~OwnMessageIn(r)
      /\ r.errBody.stack = ""

-----------------------------------------------------------------------------
(* The 429 response *)

Throttled(r) == r.endedBy = "rateLimit"

AdvisoryHeaders(r) ==
  /\ HasHeader(r.headers, "ratelimit-policy")
  /\ r.headers["ratelimit-policy"] =
       "q=" \o ToString(Limit) \o "; w=" \o ToString(rateLimitConfig.windowMs)
  /\ HasHeader(r.headers, "ratelimit")
  /\ r.headers["ratelimit"] =
       "r=" \o ToString(Max(Limit - r.nth, 0)) \o "; t=" \o
       ToString(r.reset)

Segments ==
  { <<"a">>, <<" ">>, <<"=">>, <<"/">>, <<".">>, <<"1">>,
    <<"F", "r", "o", "m">>,
    <<"/", "a", ".", "b">>,
    <<"1", ".", "1", ".", "1", ".", "1">>,
    <<"=", "=", "=", "=">>,
    <<"a", "a", "a", "a", "a", "a", "a", "a", "a", "a", "a", "a", "a", "a">> }

RECURSIVE Flatten(_)
Flatten(ss) == IF ss = <<>> THEN <<>> ELSE Head(ss) \o Flatten(Tail(ss))

MessageTexts == {Flatten(ss) : ss \in UNION {[1..n -> Segments] : n \in 0..MaxSegments}}

Messages == {Number7} \cup {Str(t) : t \in MessageTexts}

\* error.msg is handed to sanitizeErrorMessage
SanitizeErrorMessage ==
  /\ calc.fn = "sanitizeErrorMessage"
  /\ calc.stage = "call"
  /\ calc' = [calc EXCEPT !.stage = "done", !.out = sanitizeErrorMessage(calc.input)]
  /\ UNCHANGED <<pipeVars, form, proc>>

InitIdle ==
  /\ deployment = BaseDeployment
  /\ clock = 0
  /\ store = << >>
  /\ reqs = EmptyBag
  /\ arrivals = 0
  /\ ref = [c \in Clients |-> RefInit]
  /\ form = <<>>
  /\ proc = <<>>

InitScrub ==
  /\ InitIdle
  /\ calc \in {[fn |-> "sanitizeErrorMessage", stage |-> "call", input |-> m,
                out |-> <<>>] : m \in Messages}

NextScrub == SanitizeErrorMessage

SpecScrub == InitScrub /\ [][NextScrub]_vars

\* decoding the entities of HTML_ESCAPE_MAP, left to right
EntityAt(t, c) ==
  /\ Len(t) >= Len(HTML_ESCAPE_MAP[c])
  /\ SubSeq(t, 1, Len(HTML_ESCAPE_MAP[c])) = HTML_ESCAPE_MAP[c]

RECURSIVE DecodeEntities(_)
DecodeEntities(t) ==
  IF t = <<>> THEN <<>>
  ELSE IF \E c \in DOMAIN HTML_ESCAPE_MAP : EntityAt(t, c)
       THEN LET c == CHOOSE x \in DOMAIN HTML_ESCAPE_MAP : EntityAt(t, x)
            IN <<c>> \o DecodeEntities(SubSeq(t, Len(HTML_ESCAPE_MAP[c]) + 1, Len(t)))
       ELSE <<Head(t)>> \o DecodeEntities(Tail(t))

\* an absolute file path: a slash followed by a name
FilePathAt(t, i) == t[i] = "/" /\ i < Len(t) /\ IsLetter(t[i + 1])

\* C15 as claimed: the message returned to the client holds no file path,
\* no IPv4 address and no SQL keyword, is at most MAX_MESSAGE_LENGTH
\* characters long plus the '...' marker, and is the result of redacting,
\* then truncating, then HTML-escaping.
C15_ScrubbedAsClaimed ==
  (calc.stage = "done" /\ calc.input.type = "string") =>
    LET shown == DecodeEntities(calc.out) IN
    /\ \A i \in 1..Len(shown) :
         /\ ~FilePathAt(shown, i)
         /\ SqlMatchEnd(shown, i) = 0
         /\ IpMatchEnd(shown, i) = 0
    /\ Len(calc.out) <= MaxMessageLength + 3
    /\ calc.out = escapeHtmlText(truncate(redact(calc.input.text)))

(***************************************************************************)
(* escapeHtml on its own                                                   *)
(***************************************************************************)
\* the strings given to escapeHtml: up to MaxEscapeSegments pieces
MaxEscapeSegments == 3

EscapeSegments ==
  {<<c>> : c \in DOMAIN HTML_ESCAPE_MAP} \cup
  {HTML_ESCAPE_MAP[c] : c \in DOMAIN HTML_ESCAPE_MAP} \cup
  {<<"a">>, <<";">>}

EscapeTexts ==
  {Flatten(ss) : ss \in UNION {[1..n -> EscapeSegments] : n \in 0..MaxEscapeSegments}}

EscapeInputs == {Number7} \cup {Str(t) : t \in EscapeTexts}

\* escapeHtml(str)
EscapeHtml ==
  /\ calc.fn = "escapeHtml"
  /\ calc.stage = "call"
  /\ calc' = [calc EXCEPT !.stage = "once", !.out = escapeHtml(calc.input)]
  /\ UNCHANGED <<pipeVars, form, proc>>

\* escapeHtml applied to its own result
EscapeHtmlAgain ==
  /\ calc.fn = "escapeHtml"
  /\ calc.stage = "once"
  /\ calc' = [calc EXCEPT !.stage = "twice", !.out2 = escapeHtml(calc.out)]
  /\ UNCHANGED <<pipeVars, form, proc>>

InitEscape ==
  /\ InitIdle
  /\ calc \in {[fn |-> "escapeHtml", stage |-> "call", input |-> v,
                out |-> Undefined, out2 |-> Undefined] : v \in EscapeInputs}

NextEscape == EscapeHtml \/ EscapeHtmlAgain

SpecEscape == InitEscape /\ [][NextEscape]_vars

HasEscapedChar(t) == \E i \in 1..Len(t) : t[i] \in DOMAIN HTML_ESCAPE_MAP

\* C16: decoding the eight entities in escapeHtml(s) gives back s, so that
\* escapeHtml is injective; and escaping twice differs from escaping once
\* whenever s holds one of the eight escaped characters.
C16_EscapeRoundTrip ==
  (calc.fn = "escapeHtml" /\ calc.input.type = "string") =>
    /\ calc.stage \in {"once", "twice"} =>
         DecodeEntities(calc.out.text) = calc.input.text
    /\ (calc.stage = "twice" /\ HasEscapedChar(calc.input.text)) =>
         calc.out2 # calc.out

C16_Witness ==
  /\ calc.fn = "escapeHtml"
  /\ calc.stage = "twice"
  /\ calc.input = Str(<<"&", "l", "t", ";", "<">>)
  /\ calc.out = Str(<<"&", "a", "m", "p", ";", "l", "t", ";", "&", "l", "t", ";">>)
  /\ calc.out2 # calc.out

(***************************************************************************)
(* sanitizeBody: the recursive pass over a parsed JSON body.  A JSON value *)
(* is null, a number, a boolean, a string, an array (items) or an object   *)
(* (own keys in insertion order, their values in items, and the prototype  *)
(* when one was assigned: proto is <<>> for Object.prototype).             *)
(***************************************************************************)
\* MAX_DEPTH, scaled down
MaxDepth == 1
\* how deep the bodies given to sanitizeBody nest below the root
MaxNesting == 2
\* the longest array of a body
MaxItems == 1

JValue(type, text, items, keys, proto) ==
  [type |-> type, text |-> text, items |-> items, keys |-> keys, proto |-> proto]

JNull == JValue("null", <<>>, <<>>, <<>>, <<>>)
JNumber == JValue("number", <<"7">>, <<>>, <<>>, <<>>)
JTrue == JValue("boolean", <<"t", "r", "u", "e">>, <<>>, <<>>, <<>>)
JStr(t) == JValue("string", t, <<>>, <<>>, <<>>)
JArr(items) == JValue("array", <<>>, items, <<>>, <<>>)
JObj(keys, items) == JValue("object", <<>>, items, keys, <<>>)

\* typeof v === 'object' (null included)
IsObjectType(v) == v.type \in {"null", "array", "object"}

ProtoKey == <<"_", "_", "p", "r", "o", "t", "o", "_", "_">>

IndexOf(keys, key) == CHOOSE i \in 1..Len(keys) : keys[i] = key

\* sanitized[key] = value on an object made by an object literal: the
\* __proto__ setter of Object.prototype replaces the prototype when the value
\* is an object or null and ignores any other value; every other key becomes
\* (or stays) an own property
setProperty(obj, key, value) ==
  IF key = ProtoKey
  THEN (IF IsObjectType(value) THEN [obj EXCEPT !.proto = <<value>>] ELSE obj)
  ELSE IF \E i \in 1..Len(obj.keys) : obj.keys[i] = key
       THEN [obj EXCEPT !.items[IndexOf(obj.keys, key)] = value]
       ELSE [obj EXCEPT !.keys = Append(@, key), !.items = Append(@, value)]

RECURSIVE sanitizeObject(_, _)
RECURSIVE sanitizeEntries(_, _, _, _)

\* for (const [key, value] of Object.entries(obj)) { ... }, from entry k on
sanitizeEntries(sanitized, obj, k, depth) ==
  IF k > Len(obj.keys) THEN sanitized
  ELSE LET sanitizedKey == escapeHtml(Str(obj.keys[k])).text
       IN sanitizeEntries(
            setProperty(sanitized, sanitizedKey, sanitizeObject(obj.items[k], depth + 1)),
            obj, k + 1, depth)

sanitizeObject(obj, depth) ==
  IF depth > MaxDepth THEN obj
  ELSE IF obj.type = "null" THEN obj
  ELSE IF obj.type = "string" THEN JStr(escapeHtml(Str(Trim(obj.text))).text)
  ELSE IF obj.type = "array"
       THEN JArr([i \in 1..Len(obj.items) |-> sanitizeObject(obj.items[i], depth + 1)])
  ELSE IF obj.type = "object" THEN sanitizeEntries(JObj(<<>>, <<>>), obj, 1, depth)
  ELSE obj

\* sanitizeBody(req, res, next), as a function of req.body
sanitizeBody(body) ==
  IF body.type # "null" /\ IsObjectType(body) THEN sanitizeObject(body, 0) ELSE body

BodyLeaves == {JNull, JNumber, JTrue, JStr(<<" ", "<">>)}

BodyKeys == {<<"<">>, ProtoKey}

\* the objects JSON.parse makes with keys among BodyKeys (an own __proto__
\* property included) and values among vs
ObjectsOver(vs) ==
  {JObj(<<>>, <<>>)} \cup
  {JObj(<<k>>, <<v>>) : k \in BodyKeys, v \in vs} \cup
  {JObj(<<<<"<">>, ProtoKey>>, <<v, w>>) : v \in vs, w \in vs}

ArraysOver(vs) == {JArr(items) : items \in UNION {[1..n -> vs] : n \in 0..MaxItems}}

RECURSIVE BodyValues(_)
BodyValues(n) ==
  IF n = 0 THEN BodyLeaves
  ELSE LET vs == BodyValues(n - 1) IN BodyLeaves \cup ArraysOver(vs) \cup ObjectsOver(vs)

\* express.json() leaves an object or an array in req.body
Bodies ==
  LET vs == BodyValues(MaxNesting - 1) IN ArraysOver(vs) \cup ObjectsOver(vs)

SanitizeBody ==
  /\ calc.fn = "sanitizeBody"
  /\ calc.stage = "call"
  /\ calc' = [calc EXCEPT !.stage = "done", !.out = sanitizeBody(calc.input)]
  /\ UNCHANGED <<pipeVars, form, proc>>

InitBody ==
  /\ InitIdle
  /\ calc \in {[fn |-> "sanitizeBody", stage |-> "call", input |-> b, out |-> JNull] :
                b \in Bodies}

NextBody == SanitizeBody

SpecBody == InitBody /\ [][NextBody]_vars

\* what the claim says the result is: strings and keys replaced by their
\* escaped form down to the depth limit, the shape kept, the rest untouched
RECURSIVE Claimed(_, _)
Claimed(v, depth) ==
  IF depth > MaxDepth THEN v
  ELSE IF v.type = "string" THEN JStr(escapeHtmlText(v.text))
  ELSE IF v.type \in {"array", "object"}
       THEN [v EXCEPT !.keys = [i \in 1..Len(v.keys) |-> escapeHtmlText(v.keys[i])],
                      !.items = [i \in 1..Len(v.items) |-> Claimed(v.items[i], depth + 1)]]
  ELSE v

\* C17 as claimed: sanitizeBody replaces every string value and every object
\* key at depth up to MAX_DEPTH by its HTML-escaped form, passes numbers,
\* booleans and null through, preserves array lengths and the number of keys
\* of every object, and returns what lies deeper exactly as received.
C17_SanitizedAsClaimed ==
  (calc.fn = "sanitizeBody" /\ calc.stage = "done") => calc.out = Claimed(calc.input, 0)

(***************************************************************************)
(* Loading the configuration modules: the origin list and the rate-limit   *)
(* numbers as functions of the environment                                 *)
(***************************************************************************)
\* the longest ALLOWED_ORIGINS text, in tokens
MaxOriginTokens == 4

OriginTokens == {" ", ",", AppOrigin, LocalOrigin}

OriginTexts == UNION {[1..n -> OriginTokens] : n \in 0..MaxOriginTokens}

NumEnvValues ==
  { Unset, EnvText(<<>>), EnvText(<<"a", "b", "c">>), EnvText(<<"0">>),
    EnvText(<<"-", "5">>), EnvText(<<"3">>), EnvText(<<" ", "1", "2">>),
    EnvText(<<"1", "2", "a">>), EnvText(<<"1", ".", "5">>), EnvText(<<"-", "0">>) }

ConfigDeployments ==
  { [BaseDeployment EXCEPT !.NODE_ENV = e, !.ALLOWED_ORIGINS = o] :
      e \in NodeEnvValues, o \in {Unset} \cup {EnvText(t) : t \in OriginTexts} } \cup
  { [BaseDeployment EXCEPT !.RATE_LIMIT_WINDOW_MS = w, !.RATE_LIMIT_MAX_REQUESTS = l] :
      w \in NumEnvValues, l \in NumEnvValues } \cup
  { [BaseDeployment EXCEPT !.server = "toggle", !.RATE_WINDOW_MS = w, !.RATE_LIMIT = l] :
      w \in NumEnvValues, l \in NumEnvValues }

\* require('./config/security'): the module's top level is evaluated once
LoadConfig ==
  /\ calc.fn = "config"
  /\ calc.stage = "require"
  /\ calc' = [calc EXCEPT !.stage = "loaded",
                          !.origin = corsConfig.origin,
                          !.windowMs = rateLimitConfig.windowMs,
                          !.limit = rateLimitConfig.limit]
  /\ UNCHANGED <<pipeVars, form, proc>>

InitConfig ==
  /\ deployment \in ConfigDeployments
  /\ clock = 0
  /\ store = << >>
  /\ reqs = EmptyBag
  /\ arrivals = 0
  /\ ref = [c \in Clients |-> RefInit]
  /\ form = <<>>
  /\ proc = <<>>
  /\ calc = [fn |-> "config", stage |-> "require", origin |-> DenyAll,
             windowMs |-> 0, limit |-> 0]

NextConfig == LoadConfig

SpecConfig == InitConfig /\ [][NextConfig]_vars

\* the entries of a comma-separated text, read left to right: cur is the
\* entry being read, without its leading spaces
FlushEntry(cur) == IF TrimRight(cur) = <<>> THEN <<>> ELSE <<Join(TrimRight(cur))>>

RECURSIVE EntriesOf(_, _)
EntriesOf(s, cur) ==
  IF s = <<>> THEN FlushEntry(cur)
  ELSE IF Head(s) = "," THEN FlushEntry(cur) \o EntriesOf(Tail(s), <<>>)
  ELSE IF Head(s) = " " /\ cur = <<>> THEN EntriesOf(Tail(s), cur)
  ELSE EntriesOf(Tail(s), Append(cur, Head(s)))

AbsentOrBlank(e) == ~e.set \/ \A i \in 1..Len(e.val) : e.val[i] = " "

WindowSource ==
  IF deployment.server = "secure" THEN deployment.RATE_LIMIT_WINDOW_MS
  ELSE deployment.RATE_WINDOW_MS

LimitSource ==
  IF deployment.server = "secure" THEN deployment.RATE_LIMIT_MAX_REQUESTS
  ELSE deployment.RATE_LIMIT

\* C19 as claimed: the resolved windowMs and limit are positive integers for
\* every value of their environment variables, and a value that is absent,
\* empty, not a number, zero or negative resolves to the default (900000 ms,
\* 100 requests).
C19_PositivePolicyNumbers ==
  (calc.fn = "config" /\ calc.stage = "loaded") =>
    /\ calc.windowMs > 0
    /\ calc.limit > 0
    /\ (AbsentOrBlank(WindowSource) \/ WindowSource.val[1] \in {"-", "a"}
         \/ WindowSource.val = <<"0">>) => calc.windowMs = 900000
    /\ (AbsentOrBlank(LimitSource) \/ LimitSource.val[1] \in {"-", "a"}
         \/ LimitSource.val = <<"0">>) => calc.limit = 100

(***************************************************************************)
(* Responses per listener                                                  *)
(***************************************************************************)
\* C20 as claimed: every response the process sends on any of its listeners,
\* the 301 of the plain-HTTP listener beside the HTTPS server included,
\* carries the hardened security header set.
C20_HeadersOnEveryListener ==
  \A l \in Listeners :
    proc.response[l] # NoResponse => FullyHardened(proc.response[l].headers)

(***************************************************************************)
(* The server-side log of the global error handler                         *)
(***************************************************************************)
\* C21 as claimed: every error that reaches the catch-all handler produces a
\* log entry that includes the error's stack trace, in every environment.
C21_StackAlwaysLogged ==
  \A r \in InFlight :
    r.endedBy = "errorHandler" =>
      /\ r.log.message = r.errMessage
      /\ r.log.stack = StackOf(r.errMessage)

(***************************************************************************)
(* The toggle-able server's startServer / stopServer / getServer.  server  *)
(* is the module's reference: 0 for null, or the number of an instance     *)
(* made by app.listen.  An instance is "none" (not made yet), "listening"  *)
(* (its port is bound), "failed" (the port was taken), "closing" (close()  *)
(* called: the port is released, the callback has not fired) or "closed".  *)
(***************************************************************************)
\* how many times startServer and stopServer are called
MaxStarts == 3
MaxStops == 3

Instances == 1..MaxStarts

\* securityConfig.isHttpsEnabled
isHttpsEnabled == deployment.HTTPS_ENABLED = EnvText(<<"true">>)

NoEvent == [kind |-> "none", inst |-> 0]

NewModule ==
  [server |-> 0,
   inst |-> [i \in Instances |-> "none"],
   protocol |-> [i \in Instances |-> "none"],
   ready |-> [i \in Instances |-> FALSE],
   atListen |-> [i \in Instances |-> 0],
   made |-> 0, calls |-> 0, pending |-> {}, fired |-> 0,
   lastCall |-> "none", event |-> NoEvent, crashed |-> FALSE]

getServer == proc.server

\* startServer(callback): server = app.listen(port, hostname, ...); app.listen
\* makes a plain http.Server whatever the configuration says.  The port is
\* fixed: while another instance of the process has it, listen fails with
\* EADDRINUSE, emitted as 'error' on an instance nobody listens to, and the
\* process ends with an uncaught exception.
AppStartServer ==
  /\ ~proc.crashed
  /\ proc.made < MaxStarts
  /\ LET i == proc.made + 1
         taken == \E j \in Instances : proc.inst[j] = "listening"
         started == [proc EXCEPT !.made = i,
                                 !.inst[i] = IF taken THEN "failed" ELSE "listening",
                                 !.protocol[i] = "http",
                                 !.server = i,
                                 !.lastCall = "start",
                                 !.event = [kind |-> "start", inst |-> i]]
     IN proc' = IF taken
                THEN [started EXCEPT !.crashed = TRUE, !.pending = {},
                                     !.inst = [j \in Instances |->
                                                 IF @[j] \in {"listening", "closing"}
                                                 THEN "closed" ELSE @[j]]]
                ELSE started
  /\ UNCHANGED <<pipeVars, form, calc>>

\* the listen callback: callback(server) hands over the reference as it is then
ListenCallback(i) ==
  /\ ~proc.crashed
  /\ proc.inst[i] = "listening"
  /\ ~proc.ready[i]
  /\ proc' = [proc EXCEPT !.ready[i] = TRUE, !.atListen[i] = proc.server,
                          !.event = [kind |-> "listening", inst |-> i]]
  /\ UNCHANGED <<pipeVars, form, calc>>

\* stopServer(callback): server.close(...) when the reference is set, else
\* the callback at once
AppStopServer ==
  /\ ~proc.crashed
  /\ proc.calls < MaxStops
  /\ proc' =
       IF proc.server # 0
       THEN [proc EXCEPT !.calls = @ + 1,
                         !.inst[proc.server] = IF @ = "listening" THEN "closing" ELSE @,
                         !.pending = @ \cup {[call |-> proc.calls + 1, inst |-> proc.server]},
                         !.lastCall = "stop",
                         !.event = [kind |-> "stop", inst |-> proc.server]]
       ELSE [proc EXCEPT !.calls = @ + 1, !.fired = @ + 1,
                         !.lastCall = "stop",
                         !.event = [kind |-> "stopCallback", inst |-> 0]]
  /\ UNCHANGED <<pipeVars, form, calc>>

\* the callback given to server.close: server = null; callback(err)
ServerClosed(e) ==
  /\ ~proc.crashed
  /\ e \in proc.pending
  /\ proc' = [proc EXCEPT !.inst[e.inst] = IF @ = "closing" THEN "closed" ELSE @,
                          !.server = 0,
                          !.pending = @ \ {e},
                          !.fired = @ + 1,
                          !.event = [kind |-> "stopCallback", inst |-> e.inst]]
  /\ UNCHANGED <<pipeVars, form, calc>>

HttpsEnvValues == {Unset, EnvText(<<"true">>), EnvText(<<"false">>)}

InitLifecycle ==
  /\ deployment \in {[BaseDeployment EXCEPT !.server = "toggle", !.HTTPS_ENABLED = h] :
                       h \in HttpsEnvValues}
  /\ clock = 0
  /\ store = << >>
  /\ reqs = EmptyBag
  /\ arrivals = 0
  /\ ref = [c \in Clients |-> RefInit]
  /\ form = <<>>
  /\ calc = <<>>
  /\ proc = NewModule

NextLifecycle ==
  \/ AppStartServer
  \/ AppStopServer
  \/ \E i \in Instances : ListenCallback(i)
  \/ \E e \in proc.pending : ServerClosed(e)

SpecLifecycle == InitLifecycle /\ [][NextLifecycle]_vars

AllStopsFired == proc.pending = {} /\ proc.fired = proc.calls /\ ~proc.crashed

\* C22 as claimed: getServer() is the new instance once startServer has
\* returned and when its listen callback runs; it is null once a stopServer
\* callback has fired, also when no server was running; and startServer after
\* a completed stopServer yields a listening server.
C22_SimpleLifecycle ==
  /\ proc.event.kind = "start" => getServer = proc.event.inst
  /\ \A i \in Instances : proc.ready[i] => proc.atListen[i] = i
  /\ proc.event.kind = "stopCallback" => getServer = 0
  /\ (proc.event.kind = "start" /\ proc.fired > 0 /\ AllStopsFired) =>
       proc.inst[proc.event.inst] = "listening"

\* C24 as claimed: with HTTPS_ENABLED=true startServer serves the app over
\* HTTPS, and with any other value over HTTP only.
C24_HttpsToggle ==
  \A i \in Instances :
    proc.inst[i] # "none" =>
      proc.protocol[i] = IF isHttpsEnabled THEN "https" ELSE "http"

\* C26 as claimed: after any sequence of startServer and stopServer calls
\* that ends with stopServer, once every stopServer callback has fired no
\* instance made by startServer is still listening.
C26_NoOrphanedListener ==
  (proc.lastCall = "stop" /\ AllStopsFired) =>
    \A i \in Instances : proc.inst[i] # "listening"

\* C27 as claimed: getServer() is not null while an instance that was
\* started and not stopped is listening.
C27_ReferenceKept ==
  (\E i \in Instances : proc.inst[i] = "listening") => getServer # 0

(***************************************************************************)
(* The master switch of the toggle-able server                             *)
(***************************************************************************)
SwitchedOff == deployment.SECURITY_ENABLED = EnvText(<<"false">>)

SecurityStages == {"helmet", "cors", "rateLimit"}

C25_LengthWithinBounds ==
  form.handled =>
    /\ Len(form.seen["title"].text) >= 1
    /\ Len(form.seen["title"].text) <= MaxTitle

-----------------------------------------------------------------------------
(* Repeated shutdown triggers and the exit code *)

ShutdownOnce ==
  /\ \A l \in Listeners : proc.closeCalls[l] <= 1
  /\ proc.timersArmed <= 1
  /\ proc.isShuttingDown <=> proc.timersArmed = 1
  /\ proc.isShuttingDown =>
       \A l \in Listeners : proc.closeCalls[l] = 1 <=> l \in proc.closeOperations
  /\ (proc.isShuttingDown /\ ~proc.exited) =>
       proc.timer = "armed" /\ proc.elapsed <= DrainTicks

\* the first trigger delivered to a running process starts the shutdown
FirstTriggerStarts ==
  (~proc.isShuttingDown /\ proc'.triggers # proc.triggers) =>
    /\ proc'.isShuttingDown
    /\ proc'.closeOperations = Running(proc)

\* a trigger delivered after that changes nothing but the count of triggers
LaterTriggerIgnored ==
  (proc.isShuttingDown /\ proc'.triggers # proc.triggers) =>
    proc' = [proc EXCEPT !.triggers = @ + 1]

\* C28: whatever sequence of SIGTERM, SIGINT, uncaughtException and
\* unhandledRejection arrives, only the first trigger starts a shutdown:
\* close() is called at most once per listener, at most one drain timer is
\* armed, every later trigger leaves the process as it was, and a process
\* that is shutting down has its drain timer armed until it exits, which it
\* always does.
C28_ShutdownAtMostOnce ==
  /\ []ShutdownOnce
  /\ [][FirstTriggerStarts]_vars
  /\ [][LaterTriggerIgnored]_vars
  /\ proc.isShuttingDown ~> proc.exited

\* three triggers were delivered, the first an uncaught exception, with both
\* listeners running: one close() per listener, one timer, still draining
C28_Witness ==
  /\ proc.triggers = MaxTriggers
  /\ proc.signal = "uncaughtException"
  /\ proc.closeOperations = Listeners
  /\ \A l \in Listeners : proc.closeCalls[l] = 1
  /\ proc.timersArmed = 1
  /\ proc.conns["https"] > 0
  /\ proc.elapsed > 0
  /\ ~proc.exited

\* C29: a process whose close callbacks have all fired before the drain
\* timeout has exited with code 0, whichever trigger started the shutdown
\* and whether or not a callback reported an error; a process that exited
\* with code 1 did so through the drain timeout, or at start-up in production
\* because the TLS files could not be loaded.
C29_ShutdownExitCode ==
  /\ (proc.isShuttingDown /\ proc.pending = {}) =>
       proc.exited /\ proc.code = 0 /\ proc.timer = "cleared"
  /\ (proc.exited /\ proc.code = 0) =>
       proc.isShuttingDown /\ proc.pending = {}
  /\ (proc.exited /\ proc.code = 1) =>
       \/ proc.isShuttingDown /\ proc.timer = "fired" /\ proc.pending # {}
       \/ ~proc.isShuttingDown /\ isProduction /\ TlsFailed(proc) /\ proc.phase = "exited"
            /\ proc.triggers = 0

\* an unhandled rejection started the shutdown, the HTTPS listener was never
\* bound so its close callback reported an error, the redirect listener
\* drained a request, and the process exited with code 0
C29_Witness ==
  /\ proc.exited /\ proc.code = 0
  /\ proc.signal = "unhandledRejection"
  /\ proc.closeErrors = {"https"}
  /\ proc.closeOperations = Listeners
  /\ proc.inFlightAtSignal > 0
  /\ proc.elapsed > 0

-----------------------------------------------------------------------------
(* Two identities at one limiter *)

\* a request of either identity arrives once the previous one is answered
ArriveNext(c, k) ==
  /\ reqs = EmptyBag
  /\ Receive(c, k, MaxRequests)

\* the default secure deployment serving two identities over time
NextIsolation ==
  \/ \E c \in Clients, k \in PlainKinds : ArriveNext(c, k)
  \/ \E q \in BagToSet(reqs) : Step(q)
  \/ Tick
  \/ \E c \in Clients : ClearExpired(c)

SpecIsolation == InitConcurrent /\ [][NextIsolation]_vars

NoEntry == [totalHits |-> 0, resetTime |-> 0]

\* the store's record of identity c, as the limiter would read it now
Entry(c) ==
  IF c \in DOMAIN store /\ store[c].resetTime > clock THEN store[c] ELSE NoEntry

\* the record that the requests of c alone, and the clock, account for
OwnEntry(c) ==
  IF ref[c].started /\ clock < ref[c].windowStart + rateLimitConfig.windowMs
  THEN [totalHits |-> ref[c].count,
        resetTime |-> ref[c].windowStart + rateLimitConfig.windowMs]
  ELSE NoEntry

\* the answer of the limiter to r follows from the requests of r.client alone
OwnDecision(r) ==
  /\ r.hits = r.nth
  /\ r.remaining = Max(Limit - r.nth, 0)
  /\ r.endedBy = "rateLimit" <=> r.nth > Limit
  /\ r.status = 429 <=> r.nth > Limit
  /\ r.headers["ratelimit"] =
       "r=" \o ToString(Max(Limit - r.nth, 0)) \o "; t=" \o ToString(r.reset)

\* a step that counts no request of c leaves the record of c as it was
OthersLeaveRecord ==
  \A c \in Clients :
    (ref'[c] = ref[c] /\ c \in DOMAIN store /\ c \in DOMAIN store') =>
      store'[c] = store[c]

\* C30: the record the limiter keeps for an identity, and with it the
\* decision and the remaining count it returns, is the one that the
\* identity's own requests and the clock account for; the requests of another
\* identity never change it, so an exhausted budget of B never rejects A.
C30_IdentityIsolation ==
  /\ [](\A c \in Clients : Entry(c) = OwnEntry(c))
  /\ [](\A r \in InFlight : r.nth > 0 => OwnDecision(r))
  /\ [][OthersLeaveRecord]_vars

\* B has gone over its budget and, in the same window, the first request of
\* A is answered 200 with the whole budget but one remaining
C30_Witness ==
  \E r \in InFlight :
    /\ r.client = "A" /\ r.nth = 1
    /\ r.stage = "done" /\ r.status = 200 /\ r.remaining = Limit - 1
    /\ ref["B"].count > Limit
    /\ ref["B"].windowStart = ref["A"].windowStart
    /\ Entry("B").totalHits > Limit

=============================================================================
